---- MODULE Spec2Model ----
(***************************************************************************)
(* Model of the pool registry, pool decoders, pool refresher and           *)
(* orchestrator of the on-chain arbitrage bot.                             *)
(*                                                                         *)
(* Four sub-systems share this module, each with its own specification:   *)
(*   SpecInit    - initialize_pools_from_markets / initialize_pool_data    *)
(*   SpecDecode  - the fixed-offset pool decoders                          *)
(*   SpecRefresh - PoolDataRefresher::refresh_all_pools                    *)
(*   SpecBot     - run_bot: anchor refresher and per-mint workers          *)
(* A specification leaves the variables of the other sub-systems at their  *)
(* idle values.                                                            *)
(***************************************************************************)
EXTENDS Integers, Sequences, FiniteSets, TLC

VARIABLES
    \* ---- market initializer (refresh.rs) ----
    cfg_markets,     \* markets_config.markets: the configured strings
    subject,         \* address of the one market whose account is unconstrained
    init_pc,         \* position in initialize_pools_from_markets
    market_pubkeys,  \* the parsed addresses (refresh.rs:222)
    chunk_ix,        \* index in market_pubkeys of the next chunk's first address
    mint_pools,      \* HashMap<Pubkey, MintPoolsBuilder> (refresh.rs:241)
    ref_pools,       \* the same grouping built from the non-offending slots only
    log,             \* number of warn!/error! lines per skip reason
    result,          \* HashMap<Pubkey, MintPoolData> (refresh.rs:309)
    init_err,        \* which step produced the Err that was returned
    disc_seen,       \* what get_multiple_accounts returned for each market
    mint_fetch,      \* what get_account returned for each mint account
    subj_refetch,    \* what get_account returned for the subject at its re-fetch
    slot_skew,       \* slots get_multiple_accounts returns beyond those requested
    \* ---- pool decoders (dex/*/info.rs) ----
    dec_data,        \* the account data handed to load_checked: a byte sequence
    dec_venue,       \* the decoder that was applied, "none" before the call
    dec_out,         \* what the call produced: Ok(info), Err or a panic
    \* ---- pool refresher (pool_refreshers.rs) ----
    rf_entry,        \* the registry entry handed to refresh_all_pools
    rf_before,       \* the entry as it was when the last call started
    rf_rpc,          \* what get_account answered for each pool in the last call
    rf_ret,          \* what the last call returned, "none" before the first
    rf_calls,        \* the addresses the last call asked get_account for
    \* ---- orchestrator (bot.rs) ----
    bot_threads,     \* number of scheduler threads of the async runtime
    bot_pc,          \* position of each spawned task in its loop
    bot_running,     \* the tasks that occupy a scheduler thread
    bot_hung,        \* the tasks whose remote call never returns
    anchor_lock,     \* holder of the cached_blockhash guard, 0 - 1 when none
    anchor_waiters,  \* the tasks whose cached_blockhash.lock() is pending,
                     \* in the order they asked
    cached_blockhash,   \* the value the mutex protects
    latest_blockhash,   \* each worker's copy of it
    fetched_blockhash,  \* the refresher's last Ok(blockhash)
    pool_guard,      \* whether a worker holds its mint_pool_data mutex
    bot_outcome,     \* result of each worker's last build_and_send_transaction
    bot_delay,       \* duration of each worker's last tokio::time::sleep
    process_delay,   \* config.routing.markets.process_delay
    ledger_index,    \* current price index of the workers' bucket-bearing pools
    stored_index,    \* the price index each entry's bucket lists were derived from
    bot_entry,       \* the registry entry each worker's task owns (its Arc)
    entry_guard,     \* holder of each entry's mutex, 0 - 1 when free
    \* ---- startup (bot.rs, run_bot up to the spawn loop) ----
    run_bot          \* position and locals of run_bot

initVars == <<cfg_markets, subject, init_pc, market_pubkeys, chunk_ix,
              mint_pools, ref_pools, log, result, init_err, disc_seen,
              mint_fetch, subj_refetch, slot_skew>>

decVars == <<dec_data, dec_venue, dec_out>>

refreshVars == <<rf_entry, rf_before, rf_rpc, rf_ret, rf_calls>>

botVars == <<bot_threads, bot_pc, bot_running, bot_hung, anchor_lock,
             anchor_waiters, cached_blockhash, latest_blockhash, fetched_blockhash, pool_guard,
             bot_outcome, bot_delay, process_delay, ledger_index, stored_index,
             bot_entry, entry_guard>>

vars == <<initVars, decVars, refreshVars, botVars, run_bot>>

\* the idle values of a sub-system that a specification does not run
InitIdle ==
    /\ cfg_markets = <<>>
    /\ subject = 0
    /\ init_pc = "idle"
    /\ market_pubkeys = <<>>
    /\ chunk_ix = 1
    /\ mint_pools = <<>>
    /\ ref_pools = <<>>
    /\ log = <<>>
    /\ result = <<>>
    /\ init_err = "none"
    /\ disc_seen = <<>>
    /\ mint_fetch = <<>>
    /\ subj_refetch = <<>>
    /\ slot_skew = 0

DecIdle ==
    /\ dec_data = <<>>
    /\ dec_venue = "idle"
    /\ dec_out = <<>>

RefreshIdle ==
    /\ rf_entry = <<>>
    /\ rf_before = <<>>
    /\ rf_rpc = <<>>
    /\ rf_ret = "idle"
    /\ rf_calls = <<>>

BotIdle ==
    /\ bot_threads = 0
    /\ bot_pc = <<>>
    /\ bot_running = {}
    /\ bot_hung = {}
    /\ anchor_lock = 0 - 1
    /\ anchor_waiters = <<>>
    /\ cached_blockhash = "idle"
    /\ latest_blockhash = <<>>
    /\ fetched_blockhash = "idle"
    /\ pool_guard = <<>>
    /\ bot_outcome = <<>>
    /\ bot_delay = <<>>
    /\ process_delay = 0
    /\ ledger_index = 0
    /\ stored_index = <<>>
    /\ bot_entry = <<>>
    /\ entry_guard = <<>>

StartIdle == run_bot = <<>>

-----------------------------------------------------------------------------
(* Bounds of the model.                                                    *)

\* number of configured markets whose accounts may exist on the ledger
MaxMarkets == 2

\* batch size of get_multiple_accounts
ChunkSize == 100

Min(a, b) == IF a < b THEN a ELSE b

-----------------------------------------------------------------------------
(* Addresses.  Mints, programs and vaults are symbolic 32-byte addresses.   *)

sol_mint == "SOL"
usdc_mint == "USDC"
Mints == {sol_mint, usdc_mint, "T1", "T2"}

spl_token_id == "TokenkegQ"
token_2022_program_id == "TokenzQd"

pump_program_id == "pAMMBay"
raydium_program_id == "raydium_v4"
raydium_cp_program_id == "raydium_cp"
raydium_clmm_program_id == "raydium_clmm"
dlmm_program_id == "dlmm"
damm_program_id == "damm"
damm_v2_program_id == "damm_v2"
whirlpool_program_id == "whirlpool"
vertigo_program_id == "vertigo"
heaven_program_id == "heaven"
pancakeswap_program_id == "HpNfyc2S"
byreal_program_id == "REALQqNE"
futarchy_program_id == "FUTARELB"
humidifi_program_id == "9H6tua7j"
system_program_id == "11111111"

Kinds == {"Pump", "RaydiumV4", "RaydiumCp", "RaydiumClmm", "MeteoraDlmm",
          "MeteoraDamm", "MeteoraDammV2", "Whirlpool", "Vertigo", "Heaven"}

NoKind == "None"

ProgramOf(kind) ==
    CASE kind = "Pump" -> pump_program_id
      [] kind = "RaydiumV4" -> raydium_program_id
      [] kind = "RaydiumCp" -> raydium_cp_program_id
      [] kind = "RaydiumClmm" -> raydium_clmm_program_id
      [] kind = "MeteoraDlmm" -> dlmm_program_id
      [] kind = "MeteoraDamm" -> damm_program_id
      [] kind = "MeteoraDammV2" -> damm_v2_program_id
      [] kind = "Whirlpool" -> whirlpool_program_id
      [] kind = "Vertigo" -> vertigo_program_id
      [] kind = "Heaven" -> heaven_program_id

\* owners an account may have on the ledger
Owners == {ProgramOf(k) : k \in Kinds}
            \cup {pancakeswap_program_id, byreal_program_id,
                  futarchy_program_id, humidifi_program_id, system_program_id}

-----------------------------------------------------------------------------
(* Ledger accounts.  The data of a pool account is modelled at the level of *)
(* its decoded fields: whether the venue's decoder accepts it, its first    *)
(* and second mint (base/quote, coin/pc, token_0/token_1, x/y, a/b in the   *)
(* venue's own naming) and whether the venue's auxiliary step on it works   *)
(* (bucket derivation for DLMM and Raydium CLMM, the two vault accounts for *)
(* Meteora DAMM), and whether it is at least as long as the 8-byte prefix   *)
(* that the Pump decoder strips.  The layout-level decoders are modelled    *)
(* further below.                                                           *)

\* data no decoder accepts, at least 8 bytes long
BadData == [ok |-> FALSE, prefix |-> TRUE, a |-> sol_mint, b |-> sol_mint,
            aux |-> FALSE]

\* data shorter than 8 bytes (the empty buffer among them)
TinyData == [ok |-> FALSE, prefix |-> FALSE, a |-> sol_mint, b |-> sol_mint,
             aux |-> FALSE]

PoolData == {BadData, TinyData}
              \cup [ok : {TRUE}, prefix : {TRUE}, a : Mints, b : Mints,
                    aux : BOOLEAN]

NoAccount == [some |-> FALSE, owner |-> system_program_id, data |-> BadData]

Accounts == {NoAccount} \cup [some : {TRUE}, owner : Owners, data : PoolData]

\* the vault of a pool that holds `mint`, stored as the pool's first or second
Vault(side, mint) == [side |-> side, mint |-> mint]

-----------------------------------------------------------------------------
(* Pool Kind Detector.                                                      *)

\* a table in which the Whirlpool and the Vertigo program have changed places
detect_pool_kind_swapped(owner) ==
    IF owner \notin {ProgramOf(k) : k \in Kinds} THEN NoKind
    ELSE LET kind == CHOOSE k \in Kinds : ProgramOf(k) = owner
         IN IF kind = "Whirlpool" THEN "Vertigo"
            ELSE IF kind = "Vertigo" THEN "Whirlpool"
            ELSE kind

\* a detection that takes every owner it does not know for Raydium V4
detect_pool_kind_lenient(owner) ==
    IF owner \in {ProgramOf(k) : k \in Kinds}
    THEN CHOOSE k \in Kinds : ProgramOf(k) = owner
    ELSE "RaydiumV4"

\* a detection that takes the forks of Raydium CLMM for Raydium CLMM
detect_pool_kind_with_forks(owner) ==
    IF owner \in {pancakeswap_program_id, byreal_program_id}
    THEN "RaydiumClmm"
    ELSE IF owner \in {ProgramOf(k) : k \in Kinds}
    THEN CHOOSE k \in Kinds : ProgramOf(k) = owner
    ELSE NoKind

detect_pool_kind(owner) ==
    IF owner = pump_program_id THEN "Pump"
    ELSE IF owner = raydium_program_id THEN "RaydiumV4"
    ELSE IF owner = raydium_cp_program_id THEN "RaydiumCp"
    ELSE IF owner = raydium_clmm_program_id THEN "RaydiumClmm"
    ELSE IF owner = dlmm_program_id THEN "MeteoraDlmm"
    ELSE IF owner = damm_program_id THEN "MeteoraDamm"
    ELSE IF owner = damm_v2_program_id THEN "MeteoraDammV2"
    ELSE IF owner = whirlpool_program_id THEN "Whirlpool"
    ELSE IF owner = vertigo_program_id THEN "Vertigo"
    ELSE IF owner = heaven_program_id THEN "Heaven"
    ELSE NoKind

-----------------------------------------------------------------------------
(* extract_token_mint: Err, Ok(None) or Ok(Some(mint)), or a panic of the   *)
(* Pump decoder's `&data[8..]`.                                             *)

ExtractPanic == [tag |-> "Panic", mint |-> sol_mint]
ExtractErr == [tag |-> "Err", mint |-> sol_mint]
ExtractNone == [tag |-> "None", mint |-> sol_mint]
ExtractSome(m) == [tag |-> "Some", mint |-> m]

\* an extraction that falls back to the second mint when neither is SOL
ExtractAnySide(first, second) ==
    IF first = sol_mint THEN ExtractSome(second)
    ELSE IF second = sol_mint THEN ExtractSome(first)
    ELSE ExtractSome(second)

\* the branch shared by the nine venues whose only anchor is SOL
ExtractSolSide(first, second) ==
    IF first = sol_mint THEN ExtractSome(second)
    ELSE IF second = sol_mint THEN ExtractSome(first)
    ELSE ExtractNone

extract_token_mint(kind, data) ==
    IF kind = "Pump" /\ ~data.prefix THEN ExtractPanic
    ELSE IF ~data.ok THEN ExtractErr
    ELSE CASE kind = "Pump" -> ExtractSolSide(data.a, data.b)
           [] kind = "RaydiumV4" -> ExtractSolSide(data.a, data.b)
           [] kind = "RaydiumCp" -> ExtractSolSide(data.a, data.b)
           [] kind = "RaydiumClmm" -> ExtractSolSide(data.a, data.b)
           [] kind = "MeteoraDlmm" -> ExtractSolSide(data.a, data.b)
           [] kind = "MeteoraDamm" -> ExtractSolSide(data.a, data.b)
           [] kind = "MeteoraDammV2" -> ExtractSolSide(data.a, data.b)
           [] kind = "Whirlpool" -> ExtractSolSide(data.a, data.b)
           [] kind = "Vertigo" -> ExtractSolSide(data.a, data.b)
           [] kind = "Heaven" ->
                IF data.a = sol_mint \/ data.a = usdc_mint
                    THEN ExtractSome(data.b)
                ELSE IF data.b = sol_mint \/ data.b = usdc_mint
                    THEN ExtractSome(data.a)
                ELSE ExtractNone

-----------------------------------------------------------------------------
(* Discovery: grouping of pool addresses by traded mint and venue.          *)

\* MintPoolsBuilder::default(): one empty address list per venue
\* (pump_pools, raydium_pools, raydium_cp_pools, raydium_clmm_pools,
\*  dlmm_pools, damm_pools, damm_v2_pools, whirlpool_pools, vertigo_pools,
\*  heaven_pools)
MintPoolsBuilder == [k \in Kinds |-> <<>>]

LogReasons == {"not_found", "unknown_program", "no_sol", "parse_failed"}
EmptyLog == [r \in LogReasons |-> 0]

Logged(st, reason) ==
    [st EXCEPT !.log = [@ EXCEPT ![reason] = @ + 1]]

\* mint_pools.entry(token_mint).or_default(), then the push on the venue's list
GroupPush(pools, token_mint, kind, pool_pubkey) ==
    LET builder == IF token_mint \in DOMAIN pools THEN pools[token_mint]
                   ELSE MintPoolsBuilder
    IN [m \in DOMAIN pools \cup {token_mint} |->
          IF m = token_mint
          THEN [builder EXCEPT ![kind] = Append(@, pool_pubkey)]
          ELSE pools[m]]

\* body of the loop over one chunk's result slots (refresh.rs:247-303)
DiscoverOne(st, pool_pubkey, maybe_account) ==
    IF st.panicked THEN st
    ELSE IF ~maybe_account.some THEN Logged(st, "not_found")
    ELSE LET kind == detect_pool_kind(maybe_account.owner) IN
         IF kind = NoKind THEN Logged(st, "unknown_program")
         ELSE LET token_mint == extract_token_mint(kind, maybe_account.data) IN
              IF token_mint.tag = "Panic" THEN [st EXCEPT !.panicked = TRUE]
              ELSE IF token_mint.tag = "None" THEN Logged(st, "no_sol")
              ELSE IF token_mint.tag = "Err" THEN Logged(st, "parse_failed")
              ELSE [st EXCEPT !.pools =
                        GroupPush(@, token_mint.mint, kind, pool_pubkey)]

\* `for (i, maybe_account) in accounts.iter().enumerate()` over the slots
\* lo..hi, in order: the range is walked in halves, and the first half is
\* computed to a value before the second half is entered
RECURSIVE ProcessAccounts(_, _, _, _, _)
ProcessAccounts(st, chunk, accounts, lo, hi) ==
    IF lo > hi THEN st
    ELSE IF lo = hi THEN DiscoverOne(st, chunk[lo], accounts[lo])
    ELSE LET mid == (lo + hi) \div 2
             first == ProcessAccounts(st, chunk, accounts, lo, mid)
         IN IF first.log \in [LogReasons -> Nat]
            THEN ProcessAccounts(first, chunk, accounts, mid + 1, hi)
            ELSE first

-----------------------------------------------------------------------------
(* Registration: initialize_pool_data re-fetches every grouped address.     *)

\* result of rpc_client.get_account
FetchErr == [fetched |-> FALSE, owner |-> system_program_id, data |-> BadData]
Fetched(owner, data) == [fetched |-> TRUE, owner |-> owner, data |-> data]

\* A pool record of a venue vector.  token_vault is the vault argument the
\* add_*_pool call passes first (token_vault, x_vault, token_x_vault) and
\* sol_vault the one it passes second (sol_vault, y_vault, token_sol_vault,
\* token_base_vault).
PoolRecord(pool, token_vault, sol_vault, token_mint, base_mint) ==
    [pool |-> pool, token_vault |-> token_vault, sol_vault |-> sol_vault,
     token_mint |-> token_mint, base_mint |-> base_mint]

NoRecord == PoolRecord(0, Vault("a", sol_mint), Vault("a", sol_mint),
                       sol_mint, sol_mint)

Add(rec) == [tag |-> "add", rec |-> rec]
Skip == [tag |-> "skip", rec |-> NoRecord]
Fatal == [tag |-> "fatal", rec |-> NoRecord]
Panic == [tag |-> "panic", rec |-> NoRecord]

\* "Determine token_mint and base_mint": the same test in every venue branch
OrientMints(mint, first, second) ==
    IF mint = first THEN <<first, second>> ELSE <<second, first>>

RegisterPump(mint, pool_address, resp) ==
    IF ~resp.fetched THEN Fatal
    ELSE IF resp.owner # pump_program_id THEN Fatal
    ELSE IF ~resp.data.prefix THEN Panic      \* PumpAmmInfo: `&data[8..]`
    ELSE IF ~resp.data.ok THEN Fatal
    ELSE LET base_mint == resp.data.a
             quote_mint == resp.data.b
             pool_base_token_account == Vault("a", base_mint)
             pool_quote_token_account == Vault("b", quote_mint)
             vaults == IF sol_mint = base_mint
                         THEN <<pool_base_token_account, pool_quote_token_account>>
                       ELSE IF sol_mint = quote_mint
                         THEN <<pool_quote_token_account, pool_base_token_account>>
                       ELSE <<pool_quote_token_account, pool_base_token_account>>
             sol_vault == vaults[1]
             token_vault == vaults[2]
             mints == OrientMints(mint, base_mint, quote_mint)
         IN Add(PoolRecord(pool_address, token_vault, sol_vault,
                           mints[1], mints[2]))

RegisterRaydium(mint, pool_address, resp) ==
    IF ~resp.fetched THEN Fatal
    ELSE IF resp.owner # raydium_program_id THEN Fatal
    ELSE IF ~resp.data.ok THEN Fatal
    ELSE LET coin_mint == resp.data.a
             pc_mint == resp.data.b
             coin_vault == Vault("a", coin_mint)
             pc_vault == Vault("b", pc_mint)
         IN IF coin_mint # mint /\ pc_mint # mint THEN Fatal
            ELSE IF coin_mint # sol_mint /\ pc_mint # sol_mint THEN Fatal
            ELSE LET vaults == IF sol_mint = coin_mint
                                 THEN <<coin_vault, pc_vault>>
                               ELSE <<pc_vault, coin_vault>>
                     mints == OrientMints(mint, coin_mint, pc_mint)
                 IN Add(PoolRecord(pool_address, vaults[2], vaults[1],
                                   mints[1], mints[2]))

RegisterRaydiumCp(mint, pool_address, resp) ==
    IF ~resp.fetched THEN Fatal
    ELSE IF resp.owner # raydium_cp_program_id THEN Fatal
    ELSE IF ~resp.data.ok THEN Fatal
    ELSE LET token_0_mint == resp.data.a
             token_1_mint == resp.data.b
             token_0_vault == Vault("a", token_0_mint)
             token_1_vault == Vault("b", token_1_mint)
         IN IF token_0_mint # mint /\ token_1_mint # mint THEN Fatal
            ELSE IF sol_mint # token_0_mint /\ sol_mint # token_1_mint THEN Fatal
            ELSE LET vaults == IF sol_mint = token_0_mint
                                 THEN <<token_0_vault, token_1_vault>>
                               ELSE <<token_1_vault, token_0_vault>>
                     mints == OrientMints(mint, token_0_mint, token_1_mint)
                 IN Add(PoolRecord(pool_address, vaults[2], vaults[1],
                                   mints[1], mints[2]))

\* DlmmInfo::get_token_and_sol_vaults: <<token_vault, sol_vault>>
get_token_and_sol_vaults(data, mint, sol) ==
    IF sol = data.a THEN <<Vault("b", data.b), Vault("a", data.a)>>
    ELSE <<Vault("a", data.a), Vault("b", data.b)>>

RegisterDlmm(mint, pool_address, resp) ==
    IF ~resp.fetched THEN Fatal
    ELSE IF resp.owner # dlmm_program_id THEN Fatal
    ELSE IF ~resp.data.ok THEN Fatal
    ELSE LET token_x_mint == resp.data.a
             token_y_mint == resp.data.b
             vaults == get_token_and_sol_vaults(resp.data, mint, sol_mint)
         IN IF ~resp.data.aux THEN Fatal   \* calculate_bin_arrays returned Err
            ELSE LET mints == OrientMints(mint, token_x_mint, token_y_mint)
                 IN Add(PoolRecord(pool_address, vaults[1], vaults[2],
                                   mints[1], mints[2]))

RegisterWhirlpool(mint, pool_address, resp) ==
    IF ~resp.fetched THEN Fatal
    ELSE IF resp.owner # whirlpool_program_id THEN Fatal
    ELSE IF ~resp.data.ok THEN Fatal
    ELSE LET token_mint_a == resp.data.a
             token_mint_b == resp.data.b
             token_vault_a == Vault("a", token_mint_a)
             token_vault_b == Vault("b", token_mint_b)
         IN IF token_mint_a # mint /\ token_mint_b # mint THEN Fatal
            ELSE IF sol_mint # token_mint_a /\ sol_mint # token_mint_b THEN Fatal
            ELSE LET vaults == IF sol_mint = token_mint_a
                                 THEN <<token_vault_a, token_vault_b>>
                               ELSE <<token_vault_b, token_vault_a>>
                     mints == OrientMints(mint, token_mint_a, token_mint_b)
                 IN Add(PoolRecord(pool_address, vaults[2], vaults[1],
                                   mints[1], mints[2]))

RegisterRaydiumClmm(mint, pool_address, resp) ==
    IF ~resp.fetched THEN Skip
    ELSE IF resp.owner # raydium_clmm_program_id THEN Skip
    ELSE IF ~resp.data.ok THEN Skip
    ELSE LET token_mint_0 == resp.data.a
             token_mint_1 == resp.data.b
             token_vault_0 == Vault("a", token_mint_0)
             token_vault_1 == Vault("b", token_mint_1)
         IN IF token_mint_0 # mint /\ token_mint_1 # mint THEN Skip
            ELSE IF sol_mint # token_mint_0 /\ sol_mint # token_mint_1 THEN Skip
            ELSE IF ~resp.data.aux THEN Fatal  \* get_tick_array_pubkeys(..)?
            ELSE LET vaults == IF sol_mint = token_mint_0
                                 THEN <<token_vault_1, token_vault_0>>
                               ELSE <<token_vault_0, token_vault_1>>
                     mints == OrientMints(mint, token_mint_0, token_mint_1)
                 IN Add(PoolRecord(pool_address, vaults[1], vaults[2],
                                   mints[1], mints[2]))

RegisterMeteoraDamm(mint, pool_address, resp) ==
    IF ~resp.fetched THEN Fatal
    ELSE IF resp.owner # damm_program_id THEN Fatal
    ELSE IF ~resp.data.ok THEN Fatal
    ELSE LET token_a_mint == resp.data.a
             token_b_mint == resp.data.b
             a_vault == Vault("a", token_a_mint)
             b_vault == Vault("b", token_b_mint)
         IN IF token_a_mint # mint /\ token_b_mint # mint THEN Fatal
            ELSE IF token_a_mint # sol_mint /\ token_b_mint # sol_mint THEN Fatal
            ELSE IF ~resp.data.aux THEN Fatal  \* vault accounts: get_account(..)?
            ELSE LET vaults == IF sol_mint = token_a_mint
                                 THEN <<b_vault, a_vault>>
                               ELSE <<a_vault, b_vault>>
                     mints == OrientMints(mint, token_a_mint, token_b_mint)
                 IN Add(PoolRecord(pool_address, vaults[1], vaults[2],
                                   mints[1], mints[2]))

RegisterMeteoraDammV2(mint, pool_address, resp) ==
    IF ~resp.fetched THEN Skip
    ELSE IF resp.owner # damm_v2_program_id THEN Skip
    ELSE IF ~resp.data.ok THEN Skip
    ELSE LET base_mint == resp.data.a
             quote_mint == resp.data.b
             base_vault == Vault("a", base_mint)
             quote_vault == Vault("b", quote_mint)
             token_x_vault == IF sol_mint = base_mint THEN quote_vault
                              ELSE base_vault
             token_sol_vault == IF sol_mint = base_mint THEN base_vault
                                ELSE quote_vault
             mints == OrientMints(mint, base_mint, quote_mint)
         IN Add(PoolRecord(pool_address, token_x_vault, token_sol_vault,
                           mints[1], mints[2]))

\* vertigo::derive_vault_address(pool, mint).0
derive_vault_address(pool, mint) == Vault("derived", mint)

RegisterVertigo(mint, pool_address, resp) ==
    IF ~resp.fetched THEN Skip
    ELSE IF resp.owner # vertigo_program_id THEN Fatal
    ELSE IF ~resp.data.ok THEN Skip
    ELSE LET mint_a == resp.data.a
             mint_b == resp.data.b
             non_base_vault == IF mint = mint_a
                                 THEN derive_vault_address(pool_address, mint_b)
                               ELSE derive_vault_address(pool_address, mint_a)
             base_vault == IF mint = mint_a
                             THEN derive_vault_address(pool_address, mint_a)
                           ELSE derive_vault_address(pool_address, mint_b)
             token_x_vault == base_vault
             token_sol_vault == non_base_vault
             mints == OrientMints(mint, mint_a, mint_b)
         IN Add(PoolRecord(pool_address, token_x_vault, token_sol_vault,
                           mints[1], mints[2]))

RegisterHeaven(mint, pool_address, resp) ==
    IF ~resp.fetched THEN Skip
    ELSE IF resp.owner # heaven_program_id THEN Fatal
    ELSE IF ~resp.data.ok THEN Fatal
    ELSE LET mint_a == resp.data.a
             mint_b == resp.data.b
             vault_a == Vault("a", mint_a)
             vault_b == Vault("b", mint_b)
             vaults == IF mint = mint_a THEN <<vault_a, vault_b>>
                       ELSE <<vault_b, vault_a>>
             mints == OrientMints(mint, mint_a, mint_b)
             base_mint == mints[2]
         IN IF base_mint # sol_mint /\ base_mint # usdc_mint THEN Fatal
            ELSE Add(PoolRecord(pool_address, vaults[1], vaults[2],
                                mints[1], mints[2]))

RegisterOne(kind, mint, pool_address, resp) ==
    CASE kind = "Pump" -> RegisterPump(mint, pool_address, resp)
      [] kind = "RaydiumV4" -> RegisterRaydium(mint, pool_address, resp)
      [] kind = "RaydiumCp" -> RegisterRaydiumCp(mint, pool_address, resp)
      [] kind = "MeteoraDlmm" -> RegisterDlmm(mint, pool_address, resp)
      [] kind = "Whirlpool" -> RegisterWhirlpool(mint, pool_address, resp)
      [] kind = "RaydiumClmm" -> RegisterRaydiumClmm(mint, pool_address, resp)
      [] kind = "MeteoraDamm" -> RegisterMeteoraDamm(mint, pool_address, resp)
      [] kind = "MeteoraDammV2" -> RegisterMeteoraDammV2(mint, pool_address, resp)
      [] kind = "Vertigo" -> RegisterVertigo(mint, pool_address, resp)
      [] kind = "Heaven" -> RegisterHeaven(mint, pool_address, resp)

\* the order in which initialize_pool_data walks the venue lists
KindOrder == <<"Pump", "RaydiumV4", "RaydiumCp", "MeteoraDlmm", "Whirlpool",
               "RaydiumClmm", "MeteoraDamm", "MeteoraDammV2", "Vertigo",
               "Heaven">>

\* MintPoolData::new: the entry of one mint, one empty vector per venue
\* (pump_pools, raydium_pools, raydium_cp_pools, dlmm_pairs, whirlpool_pools,
\*  raydium_clmm_pools, meteora_damm_pools, meteora_damm_v2_pools,
\*  vertigo_pools, heaven_pools)
MintPoolData(mint, token_program) ==
    [mint |-> mint, token_program |-> token_program,
     pools |-> [k \in Kinds |-> <<>>]]

\* the loop over one venue's address list; acc = [fatal, panicked, data]
RECURSIVE RegisterList(_, _, _, _, _)
RegisterList(acc, kind, addrs, refetch, i) ==
    IF acc.fatal \/ acc.panicked \/ i > Len(addrs) THEN acc
    ELSE LET out == RegisterOne(kind, acc.data.mint, addrs[i], refetch[addrs[i]])
             next == IF out.tag = "fatal" THEN [acc EXCEPT !.fatal = TRUE]
                     ELSE IF out.tag = "panic"
                       THEN [acc EXCEPT !.panicked = TRUE]
                     ELSE IF out.tag = "add"
                       THEN [acc EXCEPT !.data.pools[kind] = Append(@, out.rec)]
                     ELSE acc
         IN RegisterList(next, kind, addrs, refetch, i + 1)

RECURSIVE RegisterKinds(_, _, _, _)
RegisterKinds(acc, builder, refetch, k) ==
    IF acc.fatal \/ acc.panicked \/ k > Len(KindOrder) THEN acc
    ELSE RegisterKinds(
            RegisterList(acc, KindOrder[k], builder[KindOrder[k]], refetch, 1),
            builder, refetch, k + 1)

\* result of the mint account fetch: Err, or the account's owner
MintFetchErr == "fetch_err"
MintOwners == {spl_token_id, token_2022_program_id, system_program_id}

\* a token program detection that falls back to the SPL Token program
initialize_pool_data_defaulting(mint, builder, mint_account, refetch) ==
    RegisterKinds([fatal |-> FALSE, panicked |-> FALSE,
                   data |-> MintPoolData(mint,
                              IF mint_account = token_2022_program_id
                              THEN token_2022_program_id ELSE spl_token_id)],
                  builder, refetch, 1)

\* initialize_pool_data: [fatal |-> TRUE, ..] is Err, [panicked |-> TRUE, ..]
\* a panic, else Ok(data)
initialize_pool_data(mint, builder, mint_account, refetch) ==
    IF mint_account = MintFetchErr
        THEN [fatal |-> TRUE, panicked |-> FALSE,
              data |-> MintPoolData(mint, system_program_id)]
    ELSE IF mint_account # spl_token_id /\ mint_account # token_2022_program_id
        THEN [fatal |-> TRUE, panicked |-> FALSE,
              data |-> MintPoolData(mint, system_program_id)]
    ELSE RegisterKinds([fatal |-> FALSE, panicked |-> FALSE,
                        data |-> MintPoolData(mint, mint_account)],
                       builder, refetch, 1)

-----------------------------------------------------------------------------
(* Inputs of the market initializer.                                        *)
(* A configured string is an address or not well formed.  The addresses     *)
(* 1..MaxMarkets are markets whose accounts the ledger decides; one of      *)
(* them, the subject, may hold any account at discovery and any at the      *)
(* re-fetch; the others hold one of BackgroundAccounts and keep it.  The    *)
(* addresses above PadBase are markets with no account on the ledger; they  *)
(* fill a first chunk.                                                      *)

PadBase == 10 * ChunkSize
PadChoices == {0, ChunkSize - 1}

IsPad(addr) == addr > PadBase

ConfigEntry(valid, addr) == [valid |-> valid, addr |-> addr]

\* k absent markets, then the markets 1..n, an ill-formed string after the
\* bad-th of them (none when bad < 0)
ConfigList(k, n, bad) ==
    [i \in 1..k |-> ConfigEntry(TRUE, PadBase + i)]
    \o [i \in 1..Min(n, IF bad < 0 THEN n ELSE bad) |-> ConfigEntry(TRUE, i)]
    \o (IF bad < 0 THEN <<>> ELSE <<ConfigEntry(FALSE, 0)>>)
    \o (IF bad < 0 THEN <<>>
        ELSE [i \in 1..(n - bad) |-> ConfigEntry(TRUE, bad + i)])

BackgroundData == [ok |-> TRUE, prefix |-> TRUE, a |-> "T1", b |-> sol_mint,
                   aux |-> TRUE]

BackgroundAccounts ==
    {[some |-> TRUE, owner |-> system_program_id, data |-> BadData],
     [some |-> TRUE, owner |-> raydium_program_id, data |-> BackgroundData]}

\* the accounts get_multiple_accounts may return for the address
DiscoveryAccounts(addr, subj) ==
    IF IsPad(addr) THEN {NoAccount}
    ELSE IF addr = subj THEN Accounts
    ELSE BackgroundAccounts

\* the results get_account may return for a grouped address of venue `kind`
RefetchResults(addr, subj, kind) ==
    IF addr = subj
    THEN {FetchErr} \cup {Fetched(o, d) :
                            o \in {ProgramOf(kind), system_program_id},
                            d \in PoolData}
    ELSE {Fetched(raydium_program_id, BackgroundData)}

Range(seq) == {seq[i] : i \in 1..Len(seq)}

BuilderAddrs(builder) == UNION {Range(builder[k]) : k \in Kinds}

KindHolding(builder, addr) ==
    CHOOSE k \in Kinds : addr \in Range(builder[k])

-----------------------------------------------------------------------------
(* initialize_pools_from_markets as a state machine: one step per ledger    *)
(* round trip of the function (the batch fetch of a chunk with the loop     *)
(* over its slots, the whole of initialize_pool_data for one mint).         *)

\* a parse that gives up at the first ill-formed string
ParsePubkeysUntilInvalid(markets) ==
    LET stop == IF \A i \in DOMAIN markets : markets[i].valid
                THEN Len(markets) + 1
                ELSE CHOOSE i \in DOMAIN markets :
                       /\ ~markets[i].valid
                       /\ \A j \in 1..(i - 1) : markets[j].valid
    IN [i \in 1..(stop - 1) |-> markets[i].addr]

\* Pubkey::from_str over the configured strings, ill-formed ones dropped
ParsePubkeys(markets) ==
    LET good == SelectSeq(markets, LAMBDA e : e.valid)
    IN [i \in 1..Len(good) |-> good[i].addr]

InitInit ==
    /\ \E k \in PadChoices, n \in 0..MaxMarkets :
         /\ \E bad \in {-1, 0, n} : cfg_markets = ConfigList(k, n, bad)
         /\ subject \in IF n = 0 THEN {0} ELSE 1..n
    /\ init_pc = "parse"
    /\ market_pubkeys = <<>>
    /\ chunk_ix = 1
    /\ mint_pools = <<>>
    /\ ref_pools = <<>>
    /\ log = EmptyLog
    /\ result = <<>>
    /\ init_err = "none"
    /\ disc_seen = <<>>
    /\ mint_fetch = <<>>
    /\ subj_refetch = <<>>
    /\ slot_skew = 0
    /\ DecIdle /\ RefreshIdle /\ BotIdle /\ StartIdle

ParseMarkets ==
    /\ init_pc = "parse"
    /\ market_pubkeys' = ParsePubkeys(cfg_markets)
    /\ init_pc' = IF market_pubkeys' = <<>> THEN "ok" ELSE "discover"
    /\ UNCHANGED <<cfg_markets, subject, chunk_ix, mint_pools, ref_pools,
                   log, result, init_err, disc_seen, mint_fetch, subj_refetch,
                   slot_skew>>

\* market_pubkeys.chunks(ChunkSize): the chunk that starts at index ix
ChunkAt(pubkeys, ix) ==
    SubSeq(pubkeys, ix, Min(ix + ChunkSize - 1, Len(pubkeys)))

\* the market is one the discovery loop must omit
Offending(account) ==
    \/ ~account.some
    \/ account.owner \notin {ProgramOf(k) : k \in Kinds}
    \/ ~account.data.ok
    \/ IF account.owner = heaven_program_id
       THEN {account.data.a, account.data.b} \cap {sol_mint, usdc_mint} = {}
       ELSE sol_mint \notin {account.data.a, account.data.b}

\* the grouping the discovery loop builds from the slots that are not offending
GroupingWithout(pools, chunk, accounts) ==
    LET pairs == [i \in 1..Len(accounts) |-> <<chunk[i], accounts[i]>>]
        kept == SelectSeq(pairs, LAMBDA p : ~Offending(p[2]))
    IN ProcessAccounts([pools |-> pools, log |-> EmptyLog,
                        panicked |-> FALSE],
                       [i \in 1..Len(kept) |-> kept[i][1]],
                       [i \in 1..Len(kept) |-> kept[i][2]], 1, Len(kept)).pools

DiscoverChunkOk ==
    /\ init_pc = "discover"
    /\ LET chunk == ChunkAt(market_pubkeys, chunk_ix)
           \* the slots `accounts.iter().enumerate()` visits with chunk[i] in range
           visited == Min(Len(chunk), Len(chunk) + slot_skew)
           seen == {chunk[i] : i \in 1..visited}
           real == {a \in seen : ~IsPad(a) /\ a # subject}
       IN \E sa \in (IF subject \in seen THEN Accounts ELSE {NoAccount}),
             bg \in [real -> BackgroundAccounts] :
            LET accounts == [i \in 1..visited |->
                               IF IsPad(chunk[i]) THEN NoAccount
                               ELSE IF chunk[i] = subject THEN sa
                               ELSE bg[chunk[i]]]
                st == ProcessAccounts([pools |-> mint_pools, log |-> log,
                                       panicked |-> FALSE],
                                      chunk, accounts, 1, Len(accounts))
            IN /\ disc_seen' =
                    [a \in DOMAIN disc_seen \cup (real \cup (seen \cap {subject}))
                       |-> IF a \in DOMAIN disc_seen THEN disc_seen[a]
                           ELSE IF a = subject THEN sa ELSE bg[a]]
               /\ IF st.panicked
                  THEN \* the warnings of the slots before the panicking one
                       \* are already emitted
                       /\ init_pc' = "panic"
                       /\ init_err' = "extract_token_mint"
                       /\ log' = st.log
                       /\ UNCHANGED <<mint_pools, ref_pools, chunk_ix>>
                  ELSE IF slot_skew > 0   \* `chunk[i]` with i = chunk.len()
                  THEN \* every slot of the chunk is processed and logged first
                       /\ init_pc' = "panic"
                       /\ init_err' = "chunk[i]"
                       /\ log' = st.log
                       /\ UNCHANGED <<mint_pools, ref_pools, chunk_ix>>
                  ELSE /\ mint_pools' = st.pools
                       /\ log' = st.log
                       /\ ref_pools' = GroupingWithout(ref_pools, chunk, accounts)
                       /\ chunk_ix' = chunk_ix + Len(chunk)
                       /\ init_pc' = IF chunk_ix' > Len(market_pubkeys)
                                     THEN "register" ELSE "discover"
                       /\ UNCHANGED init_err
    /\ UNCHANGED <<cfg_markets, subject, market_pubkeys, result, mint_fetch,
                   subj_refetch, slot_skew>>

\* rpc_client.get_multiple_accounts(chunk)? with an Err result
DiscoverChunkErr ==
    /\ init_pc = "discover"
    /\ init_pc' = "err"
    /\ init_err' = "get_multiple_accounts"
    /\ UNCHANGED <<cfg_markets, subject, market_pubkeys, chunk_ix, mint_pools,
                   ref_pools, log, result, disc_seen, mint_fetch, subj_refetch,
                   slot_skew>>

\* one iteration of `for (mint, builder) in mint_pools`
RegisterMint ==
    /\ init_pc = "register"
    /\ \E mint \in DOMAIN mint_pools \ DOMAIN result :
         LET builder == mint_pools[mint]
             addrs == BuilderAddrs(builder)
             refetched(mint_account) ==
                 subject \in addrs
                   /\ mint_account \in {spl_token_id, token_2022_program_id}
         IN \E mint_account \in MintOwners \cup {MintFetchErr} :
            \E sr \in (IF refetched(mint_account)
                       THEN RefetchResults(subject, subject,
                                           KindHolding(builder, subject))
                       ELSE {FetchErr}) :
              LET refetch == [a \in addrs |->
                                IF a = subject THEN sr
                                ELSE Fetched(raydium_program_id, BackgroundData)]
                  pool_data == initialize_pool_data(mint, builder,
                                                    mint_account, refetch)
              IN /\ mint_fetch' = [m \in DOMAIN mint_fetch \cup {mint} |->
                                     IF m = mint THEN mint_account
                                     ELSE mint_fetch[m]]
                 /\ subj_refetch' =
                      IF refetched(mint_account)
                      THEN [kind |-> KindHolding(builder, subject),
                            mint |-> mint, resp |-> sr]
                      ELSE subj_refetch
                 /\ IF pool_data.panicked
                    THEN /\ init_pc' = "panic"
                         /\ init_err' = "initialize_pool_data"
                         /\ UNCHANGED result
                    ELSE IF pool_data.fatal
                    THEN /\ init_pc' = "err"
                         /\ init_err' = "initialize_pool_data"
                         /\ UNCHANGED result
                    ELSE /\ result' = [m \in DOMAIN result \cup {mint} |->
                                         IF m = mint THEN pool_data.data
                                         ELSE result[m]]
                         /\ UNCHANGED <<init_pc, init_err>>
    /\ UNCHANGED <<cfg_markets, subject, market_pubkeys, chunk_ix, mint_pools,
                   ref_pools, log, disc_seen, slot_skew>>

\* Ok(result)
ReturnRegistry ==
    /\ init_pc = "register"
    /\ DOMAIN mint_pools \ DOMAIN result = {}
    /\ init_pc' = "ok"
    /\ UNCHANGED <<cfg_markets, subject, market_pubkeys, chunk_ix, mint_pools,
                   ref_pools, log, result, init_err, disc_seen, mint_fetch,
                   subj_refetch, slot_skew>>

NextInit ==
    /\ \/ ParseMarkets
       \/ DiscoverChunkOk
       \/ DiscoverChunkErr
       \/ RegisterMint
       \/ ReturnRegistry
    /\ UNCHANGED <<decVars, refreshVars, botVars, run_bot>>

SpecInit == InitInit /\ [][NextInit]_vars

\* The initializer on a configuration of ScenarioMarkets well-formed markets
\* in one chunk: one holds any account, each of the others a Raydium pool or
\* an account of the system program.
ScenarioMarkets == 3

InitScenario ==
    /\ cfg_markets = ConfigList(0, ScenarioMarkets, 0 - 1)
    /\ subject \in 1..ScenarioMarkets
    /\ init_pc = "parse"
    /\ market_pubkeys = <<>>
    /\ chunk_ix = 1
    /\ mint_pools = <<>>
    /\ ref_pools = <<>>
    /\ log = EmptyLog
    /\ result = <<>>
    /\ init_err = "none"
    /\ disc_seen = <<>>
    /\ mint_fetch = <<>>
    /\ subj_refetch = <<>>
    /\ slot_skew = 0
    /\ DecIdle /\ RefreshIdle /\ BotIdle /\ StartIdle

SpecScenario == InitScenario /\ [][NextInit]_vars

\* the initializer is entered with the configured list `markets`; the ledger
\* returns `skew` slots more than a batch fetch asks for
InitFrom(markets, subj, skew) ==
    /\ cfg_markets = markets
    /\ subject = subj
    /\ init_pc = "parse"
    /\ market_pubkeys = <<>>
    /\ chunk_ix = 1
    /\ mint_pools = <<>>
    /\ ref_pools = <<>>
    /\ log = EmptyLog
    /\ result = <<>>
    /\ init_err = "none"
    /\ disc_seen = <<>>
    /\ mint_fetch = <<>>
    /\ subj_refetch = <<>>
    /\ slot_skew = skew
    /\ DecIdle /\ RefreshIdle /\ BotIdle

\* The initializer on a configuration of SingleMarkets well-formed markets,
\* the first of which holds any account.
SingleMarkets == 1

InitSingle ==
    InitFrom(ConfigList(0, SingleMarkets, 0 - 1), 1, 0) /\ StartIdle

SpecSingle == InitSingle /\ [][NextInit]_vars

\* The initializer with a ledger whose get_multiple_accounts returns one
\* slot less than, as many slots as, or one slot more than it was asked for.
SlotSkews == {0 - 1, 0, 1}

InitChunks ==
    /\ \E k \in PadChoices, skew \in SlotSkews :
         InitFrom(ConfigList(k, MaxMarkets, 0 - 1), 1, skew)
    /\ StartIdle

SpecChunks == InitChunks /\ [][NextInit]_vars

\* The initializer on configurations of at most SingleMarkets markets with
\* an account, with or without absent markets before them and an ill-formed
\* string before or after them.
InitParse ==
    /\ \E k \in PadChoices, n \in 0..SingleMarkets :
         \E bad \in {0 - 1, 0, n} :
             InitFrom(ConfigList(k, n, bad), IF n = 0 THEN 0 ELSE 1, 0)
    /\ StartIdle

SpecParse == InitParse /\ [][NextInit]_vars

-----------------------------------------------------------------------------
(* Pool decoders.  Account data is a sequence of bytes; data[a..b] of the   *)
(* code is Slice(data, a, b), which panics when b exceeds the length.  A    *)
(* Pubkey is the sequence of its 32 bytes.                                  *)

Bytes == 0..255

InBounds(data, from, to) == from <= to /\ to <= Len(data)

\* &data[from..to], defined when InBounds(data, from, to)
Slice(data, from, to) == SubSeq(data, from + 1, to)

PubkeyDefault == [i \in 1..32 |-> 0]

DecodeOk(info) == [tag |-> "Ok", info |-> info]
DecodeErr == [tag |-> "Err", info |-> <<>>]
DecodePanic == [tag |-> "Panic", info |-> <<>>]

\* Pubkey::find_program_address(seeds, program_id).0
find_program_address(seeds, program_id) ==
    [pda_seeds |-> seeds, pda_program |-> program_id]

COIN_CREATOR_VAULT_SEED == "creator_vault"

\* an authority that is derived whatever the creator is
CoinCreatorVaultAuthorityDerived(coin_creator) ==
    find_program_address(<<COIN_CREATOR_VAULT_SEED, coin_creator>>,
                         pump_program_id)

\* `let coin_creator_vault_authority = if coin_creator == Pubkey::default()`
CoinCreatorVaultAuthority(coin_creator) ==
    IF coin_creator = PubkeyDefault THEN PubkeyDefault
    ELSE find_program_address(<<COIN_CREATOR_VAULT_SEED, coin_creator>>,
                              pump_program_id)

\* a flag read from the last byte of the data, wherever that is
IsMayhemModeLastByte(data, is_mayhem_mode_offset) == data[Len(data)] # 0

\* `let is_mayhem_mode = if is_mayhem_mode_offset >= data.len()`
IsMayhemMode(data, is_mayhem_mode_offset) ==
    IF is_mayhem_mode_offset >= Len(data) THEN FALSE
    ELSE data[is_mayhem_mode_offset + 1] # 0

\* PumpAmmInfo::load_checked
PumpLoadChecked(data0) ==
    IF ~InBounds(data0, 8, Len(data0)) THEN DecodePanic    \* &data[8..]
    ELSE
    LET data == Slice(data0, 8, Len(data0))
        base_mint_offset == 1 + 2 + 32
        quote_mint_offset == base_mint_offset + 32
        pool_base_offset == quote_mint_offset + 32 + 32
        pool_quote_offset == pool_base_offset + 32
        min_len == pool_quote_offset + 32
        coin_creator_offset == pool_quote_offset + 8 + 32
        is_mayhem_mode_offset == coin_creator_offset + 32
    IN IF Len(data) < min_len THEN DecodeErr
       ELSE IF \E off \in {base_mint_offset, quote_mint_offset,
                           pool_base_offset, pool_quote_offset} :
                  ~InBounds(data, off, off + 32)
         THEN DecodePanic
       ELSE
       LET coin_creator ==
               IF coin_creator_offset + 32 > Len(data) THEN PubkeyDefault
               ELSE Slice(data, coin_creator_offset, coin_creator_offset + 32)
           is_mayhem_mode == IsMayhemMode(data, is_mayhem_mode_offset)
           coin_creator_vault_authority ==
               CoinCreatorVaultAuthority(coin_creator)
       IN DecodeOk(
            [base_mint |-> Slice(data, base_mint_offset, base_mint_offset + 32),
             quote_mint |-> Slice(data, quote_mint_offset,
                                  quote_mint_offset + 32),
             pool_base_token_account |->
                 Slice(data, pool_base_offset, pool_base_offset + 32),
             pool_quote_token_account |->
                 Slice(data, pool_quote_offset, pool_quote_offset + 32),
             coin_creator |-> coin_creator,
             coin_creator_vault_authority |-> coin_creator_vault_authority,
             is_mayhem_mode |-> is_mayhem_mode])

\* futarchy::info::read_pubkey: <<>> stands for the Err
FutarchyReadPubkey(data, offset) ==
    IF Len(data) < offset + 32 THEN <<>>
    ELSE Slice(data, offset, offset + 32)

FUTARCHY_BASE_MINT_OFFSET == 157
FUTARCHY_QUOTE_MINT_OFFSET == 189
FUTARCHY_BASE_VAULT_OFFSET == 221
FUTARCHY_QUOTE_VAULT_OFFSET == 253

\* FutarchyInfo::load_checked
FutarchyLoadChecked(data) ==
    IF Len(data) < FUTARCHY_QUOTE_VAULT_OFFSET + 32 THEN DecodeErr
    ELSE LET base_mint == FutarchyReadPubkey(data, FUTARCHY_BASE_MINT_OFFSET)
             quote_mint == FutarchyReadPubkey(data, FUTARCHY_QUOTE_MINT_OFFSET)
             base_vault == FutarchyReadPubkey(data, FUTARCHY_BASE_VAULT_OFFSET)
             quote_vault == FutarchyReadPubkey(data, FUTARCHY_QUOTE_VAULT_OFFSET)
         IN IF <<>> \in {base_mint, quote_mint, base_vault, quote_vault}
            THEN DecodeErr
            ELSE DecodeOk([base_mint |-> base_mint, quote_mint |-> quote_mint,
                           base_vault |-> base_vault,
                           quote_vault |-> quote_vault])

(* A u64 is held as its four 16-bit limbs, least significant first.         *)

\* u64::from_le_bytes
U64FromLeBytes(bytes) ==
    [j \in 1..4 |-> bytes[2 * j - 1] + 256 * bytes[2 * j]]

\* u64::to_le_bytes
U64ToLeBytes(limbs) ==
    [i \in 1..8 |-> IF i % 2 = 1 THEN limbs[(i + 1) \div 2] % 256
                    ELSE limbs[i \div 2] \div 256]

\* bitwise exclusive or of two naturals below 2^bits
RECURSIVE XorBits(_, _, _)
XorBits(x, y, bits) ==
    IF bits = 0 THEN 0
    ELSE ((x + y) % 2) + 2 * XorBits(x \div 2, y \div 2, bits - 1)

\* a decoding that adds the key to the chunk (wrapping, per limb)
U64Add(x, y) == [j \in 1..4 |-> (x[j] + y[j]) % 65536]

\* chunk ^ key on u64
U64Xor(x, y) == [j \in 1..4 |-> XorBits(x[j], y[j], 16)]

\* XOR_KEYS: 0xfb5ce87aae443c38, 0x04a2178451bac3c7, 0x04a1178751b9c3c6,
\* 0x04a0178651b8c3c5
XOR_KEYS ==
    << <<15416, 44612, 59514, 64348>>,
       <<50119, 20922, 6020, 1186>>,
       <<50118, 20921, 6023, 1185>>,
       <<50117, 20920, 6022, 1184>> >>

HUMIDIFI_QUOTE_MINT_OFFSET == 384
HUMIDIFI_BASE_MINT_OFFSET == 416
HUMIDIFI_QUOTE_VAULT_OFFSET == 448
HUMIDIFI_BASE_VAULT_OFFSET == 480

\* humidifi::info::read_u64_le: <<>> stands for None
read_u64_le(data, offset) ==
    IF Len(data) < offset + 8 THEN <<>>
    ELSE U64FromLeBytes(Slice(data, offset, offset + 8))

\* humidifi::info::decode_pubkey: <<>> stands for None
decode_pubkey(pool_data, offset) ==
    IF Len(pool_data) < offset + 32 THEN <<>>
    ELSE LET chunks == [i \in 0..3 |-> read_u64_le(pool_data, offset + i * 8)]
         IN IF \E i \in 0..3 : chunks[i] = <<>> THEN <<>>
            ELSE LET decoded == [i \in 0..3 |->
                                   U64ToLeBytes(U64Xor(chunks[i],
                                                       XOR_KEYS[i + 1]))]
                 IN [k \in 1..32 |-> decoded[(k - 1) \div 8][((k - 1) % 8) + 1]]

\* HumidifiInfo::load_checked
HumidifiLoadChecked(data) ==
    IF Len(data) < HUMIDIFI_BASE_VAULT_OFFSET + 32 THEN DecodeErr
    ELSE LET quote_mint == decode_pubkey(data, HUMIDIFI_QUOTE_MINT_OFFSET)
             base_mint == decode_pubkey(data, HUMIDIFI_BASE_MINT_OFFSET)
             quote_vault == decode_pubkey(data, HUMIDIFI_QUOTE_VAULT_OFFSET)
             base_vault == decode_pubkey(data, HUMIDIFI_BASE_VAULT_OFFSET)
         IN IF <<>> \in {quote_mint, base_mint, quote_vault, base_vault}
            THEN DecodeErr
            ELSE DecodeOk([base_mint |-> base_mint, quote_mint |-> quote_mint,
                           base_vault |-> base_vault,
                           quote_vault |-> quote_vault])

-----------------------------------------------------------------------------
(* The decoders as a state machine: a buffer is handed to one decoder.      *)

\* lengths within LenSlack of a length at which a decoder's behaviour changes
LenSlack == 1

\* the length of the prefix Pump strips, Pump's minimum, the ends of its
\* coin_creator and is_mayhem_mode fields, Futarchy's and HumidiFi's minimum
LayoutLengths ==
    {0, 8, 8 + 195, 8 + 235, 8 + 236,
     FUTARCHY_QUOTE_VAULT_OFFSET + 32, HUMIDIFI_BASE_VAULT_OFFSET + 32}

DecodeLengths ==
    {n \in 0..(HUMIDIFI_BASE_VAULT_OFFSET + 32 + LenSlack) :
        \E m \in LayoutLengths : n - m \in (0 - LenSlack)..LenSlack}

\* byte i of a buffer: zero everywhere, or a value that varies with i
Fills == {0, 1, 7}

Buffer(len, fill) == [i \in 1..len |-> (fill * i) % 256]

DecodeInit ==
    /\ \E len \in DecodeLengths, fill \in Fills : dec_data = Buffer(len, fill)
    /\ dec_venue = "none"
    /\ dec_out = <<>>
    /\ InitIdle /\ RefreshIdle /\ BotIdle /\ StartIdle

DecodePump ==
    /\ dec_venue = "none"
    /\ dec_venue' = "Pump"
    /\ dec_out' = PumpLoadChecked(dec_data)
    /\ UNCHANGED dec_data

DecodeFutarchy ==
    /\ dec_venue = "none"
    /\ dec_venue' = "Futarchy"
    /\ dec_out' = FutarchyLoadChecked(dec_data)
    /\ UNCHANGED dec_data

DecodeHumidifi ==
    /\ dec_venue = "none"
    /\ dec_venue' = "Humidifi"
    /\ dec_out' = HumidifiLoadChecked(dec_data)
    /\ UNCHANGED dec_data

NextDecode ==
    /\ \/ DecodePump
       \/ DecodeFutarchy
       \/ DecodeHumidifi
    /\ UNCHANGED <<initVars, refreshVars, botVars, run_bot>>

SpecDecode == DecodeInit /\ [][NextDecode]_vars

\* the minimum layout length of the venue whose decoder was applied
MinLayoutLength(venue) ==
    CASE venue = "Pump" -> 8 + 195
      [] venue = "Futarchy" -> FUTARCHY_QUOTE_VAULT_OFFSET + 32
      [] venue = "Humidifi" -> HUMIDIFI_BASE_VAULT_OFFSET + 32

\* C3: every decoder, given a buffer shorter than its venue's minimum layout
\* length (the empty buffer and buffers shorter than Pump's 8-byte prefix
\* among them), returns an error; it does not panic.
C3_ShortBufferIsAnError ==
    (dec_venue \in {"Pump", "Futarchy", "Humidifi"}
       /\ Len(dec_data) < MinLayoutLength(dec_venue))
    => dec_out.tag = "Err"

\* offsets of Pump's creator address and mayhem flag in the account data
\* (discriminator included)
PumpCreatorStart == 8 + 203
PumpCreatorEnd == PumpCreatorStart + 32

\* the creator address the account data holds, all-zero when the data ends
\* before the end of the field
PumpCreatorOf(data0) ==
    IF Len(data0) < PumpCreatorEnd THEN PubkeyDefault
    ELSE SubSeq(data0, PumpCreatorStart + 1, PumpCreatorEnd)

\* an address held as its 32 bytes, or as the seeds and program it is
\* derived from
IsPlainAddress(x) == Cardinality(DOMAIN x) = 32
IsDerivedAddress(x) == Cardinality(DOMAIN x) = 2

\* C19: after a successful Pump decode, a creator that is all-zero (also
\* because the data is too short to hold the creator field) gives the
\* all-zero coin_creator_vault_authority and nothing is derived; any other
\* creator gives the address derived from the seeds ("creator_vault",
\* creator) under the Pump program.
C19_AuthorityDerivedOnlyForCreator ==
    (dec_venue = "Pump" /\ dec_out.tag = "Ok") =>
        LET creator == PumpCreatorOf(dec_data)
            authority == dec_out.info.coin_creator_vault_authority
        IN /\ dec_out.info.coin_creator = creator
           /\ IF creator = PubkeyDefault
              THEN IsPlainAddress(authority) /\ authority = PubkeyDefault
              ELSE /\ IsDerivedAddress(authority)
                   /\ authority.pda_seeds = <<"creator_vault", creator>>
                   /\ authority.pda_program = pump_program_id

\* a buffer of non-zero bytes that ends one byte before the end of the
\* creator field was decoded: the creator is defaulted
C19_Witness ==
    /\ dec_venue = "Pump"
    /\ dec_out.tag = "Ok"
    /\ Len(dec_data) = PumpCreatorEnd - 1
    /\ dec_data[PumpCreatorEnd - 1] # 0
    /\ dec_out.info.coin_creator = PubkeyDefault

\* C20: a buffer of at least Pump's minimum layout length decodes; when it
\* does not reach the mayhem flag byte (also when it ends exactly at the end
\* of the creator address) is_mayhem_mode is false; when the byte is there
\* is_mayhem_mode is true exactly when the byte is non-zero; it is never true
\* when the creator field was defaulted.
C20_MayhemFlagDefaultsToFalse ==
    (dec_venue = "Pump" /\ Len(dec_data) >= MinLayoutLength("Pump")) =>
        /\ dec_out.tag = "Ok"
        /\ dec_out.info.is_mayhem_mode
             = IF Len(dec_data) <= PumpCreatorEnd THEN FALSE
               ELSE dec_data[PumpCreatorEnd + 1] # 0
        /\ Len(dec_data) < PumpCreatorEnd => ~dec_out.info.is_mayhem_mode

\* a buffer of non-zero bytes that ends exactly at the end of a non-zero
\* creator address was decoded
C20_Witness ==
    /\ dec_venue = "Pump"
    /\ dec_out.tag = "Ok"
    /\ Len(dec_data) = PumpCreatorEnd
    /\ dec_data[PumpCreatorEnd] # 0
    /\ dec_out.info.coin_creator # PubkeyDefault
    /\ ~dec_out.info.is_mayhem_mode

\* byte k (1..32) of the four keys laid out as little-endian u64s
XorKeyByte(k) == U64ToLeBytes(XOR_KEYS[((k - 1) \div 8) + 1])[((k - 1) % 8) + 1]

\* the obfuscation of a 32-byte value: each byte xor the key byte above it
Obfuscate(a) == [k \in 1..32 |-> XorBits(a[k], XorKeyByte(k), 8)]

\* the 8-byte chunk i (0..3) of a 32-byte value
ChunkOf(a, i) == SubSeq(a, 8 * i + 1, 8 * i + 8)

\* a with its chunk i replaced by the chunk i of b
Splice(a, b, i) ==
    [k \in 1..32 |-> IF (k - 1) \div 8 = i THEN b[k] ELSE a[k]]

HumidifiOffsets ==
    {HUMIDIFI_QUOTE_MINT_OFFSET, HUMIDIFI_BASE_MINT_OFFSET,
     HUMIDIFI_QUOTE_VAULT_OFFSET, HUMIDIFI_BASE_VAULT_OFFSET}

\* the 32-byte values at hand after a HumidiFi decode: the four stored
\* fields, the four decoded addresses, and their obfuscations
SampleValues ==
    LET stored == {Slice(dec_data, o, o + 32) : o \in HumidifiOffsets}
        decoded == {dec_out.info.quote_mint, dec_out.info.base_mint,
                    dec_out.info.quote_vault, dec_out.info.base_vault}
    IN stored \cup decoded \cup {Obfuscate(a) : a \in stored \cup decoded}

\* C18: decode_pubkey undoes the obfuscation (xor of each 8-byte
\* little-endian chunk with its key): decoding an obfuscated value gives the
\* value back, decode_pubkey is its own inverse and one-to-one, and chunk i
\* of its result depends only on chunk i of its input.
C18_DecodeUndoesObfuscation ==
    (dec_venue = "Humidifi" /\ dec_out.tag = "Ok") =>
        /\ \A o \in HumidifiOffsets :
              decode_pubkey(dec_data, o)
                = decode_pubkey(Slice(dec_data, o, o + 32), 0)
        /\ \A a \in SampleValues :
              /\ decode_pubkey(Obfuscate(a), 0) = a
              /\ decode_pubkey(decode_pubkey(a, 0), 0) = a
              /\ Len(decode_pubkey(a, 0)) = 32
              /\ \A k \in 1..32 : decode_pubkey(a, 0)[k] \in Bytes
        /\ \A a, b \in SampleValues :
              /\ decode_pubkey(a, 0) = decode_pubkey(b, 0) => a = b
              /\ \A i \in 0..3 :
                    LET d == decode_pubkey(Splice(a, b, i), 0)
                    IN \A j \in 0..3 :
                         ChunkOf(d, j) = ChunkOf(decode_pubkey(
                                             IF j = i THEN b ELSE a, 0), j)

\* a HumidiFi account with non-zero, pairwise different stored fields was
\* decoded, and the decoded base mint differs from the stored bytes
C18_Witness ==
    /\ dec_venue = "Humidifi"
    /\ dec_out.tag = "Ok"
    /\ dec_out.info.base_mint
         # Slice(dec_data, HUMIDIFI_BASE_MINT_OFFSET,
                 HUMIDIFI_BASE_MINT_OFFSET + 32)
    /\ dec_out.info.base_mint # dec_out.info.quote_mint
    /\ dec_out.info.base_mint # Obfuscate(PubkeyDefault)

-----------------------------------------------------------------------------
(* Pool Refresher.  A bucket-bearing pool record keeps its address, its     *)
(* mints and vaults and the list of its bucket addresses (bin_arrays of a   *)
(* DLMM pair, tick_arrays of the tick-indexed venues).                      *)

\* what the refreshed account decodes to: the price index (active_id,
\* tick_current_index, tick_current), the tick spacing, and whether the
\* venue's bucket derivation succeeds on it
BadPoolState == [ok |-> FALSE, index |-> 0, tick_spacing |-> 1,
                 derive_ok |-> FALSE]

Ticks == {-60, -5, 0}
Spacings == {1, 2}

PoolStates ==
    {BadPoolState}
      \cup [ok : {TRUE}, index : Ticks, tick_spacing : Spacings,
            derive_ok : BOOLEAN]

\* result of rpc_client.get_account(&pool.pool)
RefreshFetchErr ==
    [fetched |-> FALSE, owner |-> system_program_id, state |-> BadPoolState]

\* the answers for a pool of the program: no account, or an account that the
\* program or another program owns
RefreshAnswers == {RefreshFetchErr}
                    \cup [fetched : {TRUE}, foreign : BOOLEAN, state : PoolStates]

RefreshResponse(answer, program_id) ==
    IF ~answer.fetched THEN RefreshFetchErr
    ELSE [fetched |-> TRUE,
          owner |-> IF answer.foreign THEN system_program_id ELSE program_id,
          state |-> answer.state]

\* the address of the bucket with the given index of a pool
BucketAddress(pool, program_id, bucket) ==
    [bucket_of |-> pool, program |-> program_id, bucket |-> bucket]

\* a derivation whose division rounds toward zero
DeriveBucketsTruncating(pool, index, span, program_id) ==
    LET quotient == IF index >= 0 THEN index \div span
                    ELSE 0 - ((0 - index) \div span)
    IN [k \in 1..3 |-> BucketAddress(pool, program_id, quotient + (k - 2))]

\* one address per offset -1, 0, +1 around the bucket that holds the index;
\* a bucket spans `span` consecutive indices (floor division)
DeriveBuckets(pool, index, span, program_id) ==
    [k \in 1..3 |-> BucketAddress(pool, program_id, (index \div span) + (k - 2))]

\* DlmmInfo::calculate_bin_arrays(&pool.pair): <<>> stands for the Err
calculate_bin_arrays(state, pair) ==
    IF ~state.derive_ok THEN <<>>
    ELSE DeriveBuckets(pair, state.index, 70, dlmm_program_id)

\* whirlpool::update_tick_array_accounts_for_onchain
update_tick_array_accounts_for_onchain(state, pool, program_id) ==
    DeriveBuckets(pool, state.index, 88 * state.tick_spacing, program_id)

\* raydium::get_tick_array_pubkeys(pool, tick_current, tick_spacing,
\* &[-1, 0, 1], program_id): <<>> stands for the Err
get_tick_array_pubkeys(pool, state, program_id) ==
    IF ~state.derive_ok THEN <<>>
    ELSE DeriveBuckets(pool, state.index, 60 * state.tick_spacing, program_id)

\* a pool record of dlmm_pairs
DlmmPool(pair, bin_arrays, token_mint) ==
    [pair |-> pair, token_vault |-> Vault("a", token_mint),
     sol_vault |-> Vault("b", sol_mint), bin_arrays |-> bin_arrays,
     token_mint |-> token_mint, base_mint |-> sol_mint]

\* a pool record of whirlpool_pools, raydium_clmm_pools, pancakeswap_pools
\* or byreal_pools
TickPool(pool, tick_arrays, token_mint) ==
    [pool |-> pool, x_vault |-> Vault("a", token_mint),
     y_vault |-> Vault("b", sol_mint), tick_arrays |-> tick_arrays,
     token_mint |-> token_mint, base_mint |-> sol_mint]

\* Result<()> of a refresher, with the entry it leaves behind
RefreshOk(data) == [ok |-> TRUE, pool_data |-> data]

\* a DLMM refresh that adds the new bin arrays to the stored ones
refresh_dlmm_pools_appending(data, rpc) ==
    LET pairs == data.dlmm_pairs
        refreshed(pool) ==
            LET account == rpc[pool.pair] IN
            IF ~account.fetched \/ ~account.state.ok THEN pool
            ELSE [pool EXCEPT !.bin_arrays =
                      @ \o calculate_bin_arrays(account.state, pool.pair)]
    IN RefreshOk([data EXCEPT !.dlmm_pairs =
                     [i \in 1..Len(pairs) |-> refreshed(pairs[i])]])

\* refresh_dlmm_pools; rpc maps a pool address to get_account's answer
refresh_dlmm_pools(data, rpc) ==
    LET pairs == data.dlmm_pairs
        refreshed(pool) ==
            LET account == rpc[pool.pair] IN
            IF ~account.fetched THEN pool
            ELSE IF ~account.state.ok THEN pool
            ELSE LET new_bin_arrays ==
                         calculate_bin_arrays(account.state, pool.pair)
                 IN IF new_bin_arrays = <<>> THEN pool
                    ELSE [pool EXCEPT !.bin_arrays = new_bin_arrays]
    IN RefreshOk([data EXCEPT !.dlmm_pairs =
                     [i \in 1..Len(pairs) |-> refreshed(pairs[i])]])

\* a Whirlpool refresh that forgets the pools it could not fetch
refresh_whirlpool_pools_retaining(data, rpc, program_id) ==
    LET pools == data.whirlpool_pools
        kept == SelectSeq(pools, LAMBDA pool : rpc[pool.pool].fetched)
    IN RefreshOk([data EXCEPT !.whirlpool_pools =
                     [i \in 1..Len(kept) |->
                        [kept[i] EXCEPT !.tick_arrays =
                            IF rpc[kept[i].pool].state.ok
                            THEN update_tick_array_accounts_for_onchain(
                                     rpc[kept[i].pool].state, kept[i].pool,
                                     program_id)
                            ELSE @]]])

\* refresh_whirlpool_pools
refresh_whirlpool_pools(data, rpc, program_id) ==
    LET pools == data.whirlpool_pools
        refreshed(pool) ==
            LET account == rpc[pool.pool] IN
            IF ~account.fetched THEN pool
            ELSE IF ~account.state.ok THEN pool
            ELSE [pool EXCEPT !.tick_arrays =
                      update_tick_array_accounts_for_onchain(
                          account.state, pool.pool, program_id)]
    IN RefreshOk([data EXCEPT !.whirlpool_pools =
                     [i \in 1..Len(pools) |-> refreshed(pools[i])]])

\* a Raydium CLMM refresh that propagates the first failed fetch
refresh_raydium_clmm_pools_propagating(data, rpc, program_id) ==
    IF \E j \in 1..Len(data.raydium_clmm_pools) :
           ~rpc[data.raydium_clmm_pools[j].pool].fetched
    THEN [ok |-> FALSE, pool_data |-> data]
    ELSE RefreshOk(data)

\* the loop body shared by refresh_raydium_clmm_pools,
\* refresh_pancakeswap_pools and refresh_byreal_pools
RefreshedClmm(pool, account, program_id) ==
    IF ~account.fetched THEN pool
    ELSE IF account.owner # program_id THEN pool
    ELSE IF ~account.state.ok THEN pool
    ELSE LET tick_arrays ==
                 get_tick_array_pubkeys(pool.pool, account.state, program_id)
         IN IF tick_arrays = <<>> THEN pool
            ELSE [pool EXCEPT !.tick_arrays = tick_arrays]

refresh_raydium_clmm_pools(data, rpc, program_id) ==
    LET pools == data.raydium_clmm_pools
    IN RefreshOk([data EXCEPT !.raydium_clmm_pools =
                     [i \in 1..Len(pools) |->
                        RefreshedClmm(pools[i], rpc[pools[i].pool], program_id)]])

refresh_pancakeswap_pools(data, rpc, program_id) ==
    LET pools == data.pancakeswap_pools
    IN RefreshOk([data EXCEPT !.pancakeswap_pools =
                     [i \in 1..Len(pools) |->
                        RefreshedClmm(pools[i], rpc[pools[i].pool], program_id)]])

refresh_byreal_pools(data, rpc, program_id) ==
    LET pools == data.byreal_pools
    IN RefreshOk([data EXCEPT !.byreal_pools =
                     [i \in 1..Len(pools) |->
                        RefreshedClmm(pools[i], rpc[pools[i].pool], program_id)]])

\* ProgramIds::new
ProgramIds ==
    [whirlpool |-> whirlpool_program_id,
     raydium_clmm |-> raydium_clmm_program_id,
     pancakeswap |-> pancakeswap_program_id,
     byreal |-> byreal_program_id]

\* pool_data.<field>: MintPoolData declares no pancakeswap_pools and no
\* byreal_pools, so an entry holds no pool for these two refreshers
PoolsOf(data, field) ==
    IF field \in DOMAIN data THEN data[field] ELSE <<>>

\* `step(..)?`: a refresher's Err ends refresh_all_pools
RefreshThen(r, cond(_), step(_)) ==
    IF ~r.ok THEN r
    ELSE IF cond(r.pool_data) THEN step(r.pool_data)
    ELSE r

\* PoolDataRefresher::refresh_all_pools
refresh_all_pools(data, rpc) ==
    LET r1 == RefreshThen(RefreshOk(data),
                  LAMBDA d : d.dlmm_pairs # <<>>,
                  LAMBDA d : refresh_dlmm_pools(d, rpc))
        r2 == RefreshThen(r1,
                  LAMBDA d : d.whirlpool_pools # <<>>,
                  LAMBDA d : refresh_whirlpool_pools(d, rpc,
                                                     ProgramIds.whirlpool))
        r3 == RefreshThen(r2,
                  LAMBDA d : d.raydium_clmm_pools # <<>>,
                  LAMBDA d : refresh_raydium_clmm_pools(d, rpc,
                                                        ProgramIds.raydium_clmm))
        r4 == RefreshThen(r3,
                  LAMBDA d : PoolsOf(d, "pancakeswap_pools") # <<>>,
                  LAMBDA d : refresh_pancakeswap_pools(d, rpc,
                                                       ProgramIds.pancakeswap))
        r5 == RefreshThen(r4,
                  LAMBDA d : PoolsOf(d, "byreal_pools") # <<>>,
                  LAMBDA d : refresh_byreal_pools(d, rpc, ProgramIds.byreal))
    IN r5

-----------------------------------------------------------------------------
(* The refresher as a state machine: refresh_all_pools is called on an      *)
(* entry again and again, the ledger answering each call as it likes.       *)

\* number of bucket-bearing pools of the entry
MaxPools == 2

\* the vectors of MintPoolData whose pools carry a bucket list
BucketVenues == <<"dlmm_pairs", "whirlpool_pools", "raydium_clmm_pools">>

BucketProgram(v) ==
    CASE v = 1 -> dlmm_program_id
      [] v = 2 -> ProgramIds.whirlpool
      [] v = 3 -> ProgramIds.raydium_clmm

\* the address of the j-th pool of venue v, and the venue of an address
PoolAddr(v, j) == 10 * v + j
VenueOf(addr) == addr \div 10

RECURSIVE SumTo(_, _)
SumTo(f, n) == IF n = 0 THEN 0 ELSE f[n] + SumTo(f, n - 1)

\* how many pools the entry holds per venue
EntryShapes ==
    {c \in [1..Len(BucketVenues) -> 0..MaxPools] :
        SumTo(c, Len(BucketVenues)) <= MaxPools}

ShapeAddrs(c) ==
    {PoolAddr(v, j) : v \in 1..Len(BucketVenues), j \in 1..MaxPools}
      \cap {a \in 0..(10 * Len(BucketVenues) + MaxPools) :
              VenueOf(a) \in 1..Len(BucketVenues)
              /\ a % 10 \in 1..c[VenueOf(a)]}

\* the bucket list initialization stored for a pool whose price index was t
InitialBuckets(v, addr, t) ==
    LET state == [ok |-> TRUE, index |-> t, tick_spacing |-> 1,
                  derive_ok |-> TRUE]
    IN CASE v = 1 -> calculate_bin_arrays(state, addr)
         [] v = 2 -> update_tick_array_accounts_for_onchain(
                         state, addr, BucketProgram(v))
         [] OTHER -> get_tick_array_pubkeys(addr, state, BucketProgram(v))

\* the entry of mint T1 with the pools of shape c, price indices t0
EntryOf(c, t0) ==
    [mint |-> "T1",
     token_program |-> spl_token_id,
     wallet_account |-> Vault("wallet", "T1"),
     wallet_wsol_account |-> Vault("wallet", sol_mint),
     raydium_pools |-> <<PoolRecord(1, Vault("a", "T1"), Vault("b", sol_mint),
                                    "T1", sol_mint)>>,
     raydium_cp_pools |-> <<>>,
     pump_pools |-> <<PoolRecord(2, Vault("a", "T1"), Vault("b", sol_mint),
                                 "T1", sol_mint)>>,
     dlmm_pairs |-> [j \in 1..c[1] |->
        DlmmPool(PoolAddr(1, j),
                 InitialBuckets(1, PoolAddr(1, j), t0[PoolAddr(1, j)]), "T1")],
     whirlpool_pools |-> [j \in 1..c[2] |->
        TickPool(PoolAddr(2, j),
                 InitialBuckets(2, PoolAddr(2, j), t0[PoolAddr(2, j)]), "T1")],
     raydium_clmm_pools |-> [j \in 1..c[3] |->
        TickPool(PoolAddr(3, j),
                 InitialBuckets(3, PoolAddr(3, j), t0[PoolAddr(3, j)]), "T1")],
     meteora_damm_pools |-> <<>>,
     meteora_damm_v2_pools |-> <<>>,
     vertigo_pools |-> <<>>,
     heaven_pools |-> <<>>]

\* the bucket-bearing pools of an entry: <<venue, address, bucket list>>
BucketPools(data) ==
    {<<1, data.dlmm_pairs[j].pair, data.dlmm_pairs[j].bin_arrays>> :
        j \in 1..Len(data.dlmm_pairs)}
    \cup {<<2, data.whirlpool_pools[j].pool,
            data.whirlpool_pools[j].tick_arrays>> :
            j \in 1..Len(data.whirlpool_pools)}
    \cup {<<3, data.raydium_clmm_pools[j].pool,
            data.raydium_clmm_pools[j].tick_arrays>> :
            j \in 1..Len(data.raydium_clmm_pools)}

RefreshInit ==
    /\ \E c \in EntryShapes :
         \E t0 \in [ShapeAddrs(c) -> Ticks] : rf_entry = EntryOf(c, t0)
    /\ rf_before = rf_entry
    /\ rf_rpc = <<>>
    /\ rf_ret = "none"
    /\ rf_calls = <<>>
    /\ InitIdle /\ DecIdle /\ BotIdle /\ StartIdle

\* the answers the ledger gives in one call: anything for one pool, and for
\* each other pool a well-formed account of its program
PlainAnswer ==
    [fetched |-> TRUE, foreign |-> FALSE,
     state |-> [ok |-> TRUE, index |-> 0, tick_spacing |-> 1,
                derive_ok |-> TRUE]]

CallAnswers(addrs) ==
    IF addrs = {} THEN [addrs -> RefreshAnswers]
    ELSE {[a \in addrs |-> IF a = subj THEN answer ELSE PlainAnswer] :
            subj \in addrs, answer \in RefreshAnswers}

\* the rpc_client.get_account(..) calls of one refresh_all_pools: the five
\* refreshers one after the other, each walking its vector from the front
get_account_calls(data) ==
    [j \in 1..Len(data.dlmm_pairs) |-> data.dlmm_pairs[j].pair]
    \o [j \in 1..Len(data.whirlpool_pools) |-> data.whirlpool_pools[j].pool]
    \o [j \in 1..Len(data.raydium_clmm_pools) |->
           data.raydium_clmm_pools[j].pool]
    \o [j \in 1..Len(PoolsOf(data, "pancakeswap_pools")) |->
           PoolsOf(data, "pancakeswap_pools")[j].pool]
    \o [j \in 1..Len(PoolsOf(data, "byreal_pools")) |->
           PoolsOf(data, "byreal_pools")[j].pool]

\* one call of refresh_all_pools(&mut pool_data, rpc_client, ..)
RefreshAllPools ==
    /\ \E answers \in CallAnswers({p[2] : p \in BucketPools(rf_entry)}) :
         LET rpc == [a \in DOMAIN answers |->
                       RefreshResponse(answers[a], BucketProgram(VenueOf(a)))]
             r == refresh_all_pools(rf_entry, rpc)
         IN /\ rf_entry' = r.pool_data
            /\ rf_rpc' = rpc
            /\ rf_ret' = IF r.ok THEN "Ok" ELSE "Err"
            /\ rf_calls' = get_account_calls(rf_entry)
    /\ rf_before' = rf_entry

NextRefresh ==
    /\ RefreshAllPools
    /\ UNCHANGED <<initVars, decVars, botVars, run_bot>>

SpecRefresh == RefreshInit /\ [][NextRefresh]_vars

\* the refresh of the pool failed: no account, an account of another owner,
\* undecodable data, or a bucket derivation that returned an error
RefreshFailed(v, response) ==
    \/ ~response.fetched
    \/ response.owner # BucketProgram(v)
    \/ ~response.state.ok
    \/ (v # 2 /\ ~response.state.derive_ok)

\* C4: a bucket-bearing pool whose refresh failed (fetch, owner, decode or
\* derivation) has after the call the bucket list it had before the call.
C4_FailedRefreshKeepsBuckets ==
    rf_ret \in {"Ok", "Err"} =>
        \A before \in BucketPools(rf_before), after \in BucketPools(rf_entry) :
            (before[2] = after[2] /\ RefreshFailed(before[1], rf_rpc[before[2]]))
            => after[3] = before[3]

\* C17: with the ledger answering as it did in the call just made, a second
\* call of refresh_all_pools returns the same result and leaves the entry
\* exactly as the first call left it.
C17_RefreshIsIdempotent ==
    rf_ret \in {"Ok", "Err"} =>
        /\ refresh_all_pools(rf_entry, rf_rpc).pool_data = rf_entry
        /\ refresh_all_pools(rf_entry, rf_rpc).ok = (rf_ret = "Ok")

\* a call that returned Ok and replaced the bin arrays of a DLMM pool
C17_Witness ==
    /\ rf_ret = "Ok"
    /\ rf_entry # rf_before
    /\ rf_entry.dlmm_pairs # <<>>
    /\ rf_entry.dlmm_pairs # rf_before.dlmm_pairs

-----------------------------------------------------------------------------
(* Orchestrator: the tasks run_bot spawns on the async runtime.  Task 0 is  *)
(* blockhash_refresher, the tasks 1..NumWorkers are the per-mint loops.  A  *)
(* task runs on a scheduler thread from the moment it is polled until it    *)
(* reaches an await that is pending (a held mutex, a sleep).  The network   *)
(* calls (rpc_client.get_latest_blockhash(), those of                       *)
(* build_and_send_transaction) are calls of the blocking client: the task   *)
(* keeps its thread until they return.                                      *)

NumWorkers == 2
MaxThreads == 2
MaxIndex == 1

Refresher == 0
Workers == 1..NumWorkers
Tasks == {Refresher} \cup Workers

NoHolder == 0 - 1

Hashes == {"h0", "h1"}
ProcessDelays == {1, 3}

\* positions of a per-mint loop iteration
WorkerLoop == {"lock_anchor", "wait_anchor", "copy", "lock_pool", "build",
               "built", "sleep"}

\* positions of blockhash_refresher
RefresherLoop == {"fetch", "in_call", "lock_anchor", "wait_anchor", "write",
                  "sleep"}

\* tokio's Mutex is fair.  A guard dropped while tasks wait hands the mutex
\* to the one that asked first, at once: from then on the mutex is that
\* task's although it holds no guard before it is polled, and any other task
\* that asks is queued behind the ones already waiting.
AnchorGranted(t) ==
    /\ anchor_lock = NoHolder
    /\ IF bot_pc[t] = "wait_anchor"
       THEN anchor_waiters # <<>> /\ Head(anchor_waiters) = t
       ELSE anchor_waiters = <<>>

\* the task can be polled: it is not waiting for a timer or for a mutex that
\* was not handed to it
Runnable(t) ==
    /\ bot_pc[t] \notin {"sleep", "exited"}
    /\ bot_pc[t] = "wait_anchor" => AnchorGranted(t)

\* a loop that ends on the first failed build_and_send_transaction
AfterBuildAndSendExits(outcome) == IF outcome = "Err" THEN "exited" ELSE "sleep"

\* the keys of mint_pool_data_map, in the order the spawn loop visits them
RegistryKeys == 1..NumWorkers

\* a spawn loop that hands every task a clone of the first entry's Arc
SpawnSharedEntry(w) == 1

\* `for (mint, pool_data) in mint_pool_data_map`: the map is consumed, each
\* pool_data is moved into its own Arc<Mutex<..>>, which is moved into the
\* task spawned in the same iteration
SpawnEntry(w) == w

\* where the worker goes after the match on build_and_send_transaction's
\* result: both arms log and fall through to the sleep
AfterBuildAndSend(outcome) == "sleep"

\* the anchor mutex after `let latest_blockhash = { let guard = ..; *guard };`
\* the guard is dropped at the end of the block
AnchorGuardAfterCopy(w) == NoHolder

\* `let initial_blockhash = rpc_client.get_latest_blockhash()?;`
initial_blockhash == "h0"

\* a refresher that locks the anchor and leaves it as it finds it
RefreshedAnchorKept(guard, blockhash) == guard

\* `*guard = blockhash;` in the Ok arm of blockhash_refresher
RefreshedAnchor(guard, blockhash) == blockhash

BotInit ==
    /\ bot_threads \in 1..MaxThreads
    /\ bot_pc = [t \in Tasks |-> IF t = Refresher THEN "fetch"
                                 ELSE "lock_anchor"]
    /\ bot_running = {}
    /\ bot_hung = {}
    /\ anchor_lock = NoHolder
    /\ anchor_waiters = <<>>
    /\ cached_blockhash = initial_blockhash
    /\ latest_blockhash = [w \in Workers |-> cached_blockhash]
    /\ fetched_blockhash = cached_blockhash
    /\ pool_guard = [w \in Workers |-> FALSE]
    /\ bot_outcome = [w \in Workers |-> "none"]
    /\ process_delay \in ProcessDelays
    /\ bot_delay = [w \in Workers |-> process_delay]
    /\ ledger_index = 0
    /\ stored_index = [w \in Workers |-> 0]
    /\ bot_entry = [w \in Workers |-> SpawnEntry(w)]
    /\ entry_guard = [m \in RegistryKeys |-> NoHolder]
    /\ InitIdle /\ DecIdle /\ RefreshIdle /\ StartIdle

\* the runtime polls a task on a free scheduler thread
Schedule(t) ==
    /\ t \notin bot_running
    /\ Runnable(t)
    /\ Cardinality(bot_running) < bot_threads
    /\ bot_running' = bot_running \cup {t}
    /\ UNCHANGED <<bot_threads, bot_pc, bot_hung, anchor_lock, anchor_waiters, cached_blockhash,
                   latest_blockhash, fetched_blockhash, pool_guard, bot_outcome,
                   bot_delay, process_delay, ledger_index, stored_index, bot_entry, entry_guard>>

\* cached_blockhash.lock().await, by a worker or by the refresher
LockAnchor(t) ==
    /\ t \in bot_running
    /\ bot_pc[t] \in {"lock_anchor", "wait_anchor"}
    /\ IF AnchorGranted(t)
       THEN /\ anchor_lock' = t
            /\ anchor_waiters' = IF bot_pc[t] = "wait_anchor"
                                 THEN Tail(anchor_waiters) ELSE anchor_waiters
            /\ bot_pc' = [bot_pc EXCEPT ![t] = IF t = Refresher THEN "write"
                                               ELSE "copy"]
            /\ UNCHANGED bot_running
       ELSE /\ anchor_waiters' = IF bot_pc[t] = "wait_anchor"
                                 THEN anchor_waiters
                                 ELSE Append(anchor_waiters, t)
            /\ bot_pc' = [bot_pc EXCEPT ![t] = "wait_anchor"]
            /\ bot_running' = bot_running \ {t}
            /\ UNCHANGED anchor_lock
    /\ UNCHANGED <<bot_threads, bot_hung, cached_blockhash, latest_blockhash,
                   fetched_blockhash, pool_guard, bot_outcome, bot_delay,
                   process_delay, ledger_index, stored_index, bot_entry, entry_guard>>

\* `*guard`, then the guard goes out of scope
CopyAnchor(w) ==
    /\ w \in bot_running
    /\ bot_pc[w] = "copy"
    /\ latest_blockhash' = [latest_blockhash EXCEPT ![w] = cached_blockhash]
    /\ anchor_lock' = AnchorGuardAfterCopy(w)
    /\ bot_pc' = [bot_pc EXCEPT ![w] = "lock_pool"]
    /\ UNCHANGED <<bot_threads, bot_running, bot_hung, anchor_waiters,
                   cached_blockhash,
                   fetched_blockhash, pool_guard, bot_outcome, bot_delay,
                   process_delay, ledger_index, stored_index, bot_entry, entry_guard>>

\* mint_pool_data.lock().await, then build_and_send_transaction(..).await
\* starts with the entry as it is stored.  Its network calls are calls of the
\* blocking client: the worker keeps its scheduler thread until it returns.
StartBuildAndSend(w) ==
    /\ w \in bot_running
    /\ bot_pc[w] = "lock_pool"
    /\ ~pool_guard[w]
    /\ entry_guard[bot_entry[w]] = NoHolder
    /\ pool_guard' = [pool_guard EXCEPT ![w] = TRUE]
    /\ entry_guard' = [entry_guard EXCEPT ![bot_entry[w]] = w]
    /\ bot_pc' = [bot_pc EXCEPT ![w] = "build"]
    /\ UNCHANGED <<bot_threads, bot_running, bot_hung, anchor_lock, anchor_waiters, cached_blockhash,
                   latest_blockhash, fetched_blockhash, bot_outcome, bot_delay,
                   process_delay, ledger_index, stored_index, bot_entry>>

\* build_and_send_transaction returns Ok(signatures) or Err
BuildAndSendReturns(w) ==
    /\ w \in bot_running
    /\ bot_pc[w] = "build"
    /\ w \notin bot_hung
    /\ \E outcome \in {"Ok", "Err"} :
         bot_outcome' = [bot_outcome EXCEPT ![w] = outcome]
    /\ bot_pc' = [bot_pc EXCEPT ![w] = "built"]
    /\ UNCHANGED <<bot_threads, bot_running, bot_hung, anchor_lock, anchor_waiters,
                   cached_blockhash, latest_blockhash, fetched_blockhash,
                   pool_guard, bot_delay, process_delay, ledger_index,
                   stored_index, bot_entry, entry_guard>>

\* the match arms log the result, then tokio::time::sleep(process_delay).await
LogAndSleep(w) ==
    /\ w \in bot_running
    /\ bot_pc[w] = "built"
    /\ bot_pc' = [bot_pc EXCEPT ![w] = AfterBuildAndSend(bot_outcome[w])]
    /\ bot_delay' = [bot_delay EXCEPT ![w] = process_delay]
    /\ bot_running' = bot_running \ {w}
    /\ UNCHANGED <<bot_threads, bot_hung, anchor_lock, anchor_waiters, cached_blockhash,
                   latest_blockhash, fetched_blockhash, pool_guard, bot_outcome,
                   process_delay, ledger_index, stored_index, bot_entry, entry_guard>>

\* the sleep of a worker elapses: the iteration ends (the mint_pool_data
\* guard and the result of the iteration are dropped) and the next one begins
WakeWorker(w) ==
    /\ bot_pc[w] = "sleep"
    /\ bot_pc' = [bot_pc EXCEPT ![w] = "lock_anchor"]
    /\ pool_guard' = [pool_guard EXCEPT ![w] = FALSE]
    /\ entry_guard' = [entry_guard EXCEPT ![bot_entry[w]] = NoHolder]
    /\ bot_outcome' = [bot_outcome EXCEPT ![w] = "none"]
    /\ UNCHANGED <<bot_threads, bot_running, bot_hung, anchor_lock, anchor_waiters,
                   cached_blockhash, latest_blockhash, fetched_blockhash,
                   bot_delay, process_delay, ledger_index, stored_index, bot_entry>>

\* blockhash_refresher calls rpc_client.get_latest_blockhash(): a call of
\* the blocking client made on the scheduler thread that polls the task
FetchBlockhash ==
    /\ Refresher \in bot_running
    /\ bot_pc[Refresher] = "fetch"
    /\ bot_pc' = [bot_pc EXCEPT ![Refresher] = "in_call"]
    /\ UNCHANGED <<bot_threads, bot_running, bot_hung, anchor_lock, anchor_waiters,
                   cached_blockhash, latest_blockhash, fetched_blockhash,
                   pool_guard, bot_outcome, bot_delay, process_delay,
                   ledger_index, stored_index, bot_entry, entry_guard>>

\* get_latest_blockhash returns: Ok(blockhash) goes on to the lock, Err is
\* logged and the task sleeps refresh_interval
BlockhashReturns ==
    /\ bot_pc[Refresher] = "in_call"
    /\ Refresher \notin bot_hung
    /\ \/ \E h \in Hashes :
            /\ fetched_blockhash' = h
            /\ bot_pc' = [bot_pc EXCEPT ![Refresher] = "lock_anchor"]
            /\ UNCHANGED bot_running
       \/ /\ bot_pc' = [bot_pc EXCEPT ![Refresher] = "sleep"]
          /\ bot_running' = bot_running \ {Refresher}
          /\ UNCHANGED fetched_blockhash
    /\ UNCHANGED <<bot_threads, bot_hung, anchor_lock, anchor_waiters, cached_blockhash,
                   latest_blockhash, pool_guard, bot_outcome, bot_delay,
                   process_delay, ledger_index, stored_index, bot_entry, entry_guard>>

\* `*guard = blockhash;`, the guard is dropped at the end of the Ok arm, then
\* tokio::time::sleep(refresh_interval).await
WriteAnchor ==
    /\ Refresher \in bot_running
    /\ bot_pc[Refresher] = "write"
    /\ cached_blockhash' = RefreshedAnchor(cached_blockhash, fetched_blockhash)
    /\ anchor_lock' = NoHolder
    /\ bot_pc' = [bot_pc EXCEPT ![Refresher] = "sleep"]
    /\ bot_running' = bot_running \ {Refresher}
    /\ UNCHANGED <<bot_threads, bot_hung, anchor_waiters, latest_blockhash,
                   fetched_blockhash,
                   pool_guard, bot_outcome, bot_delay, process_delay,
                   ledger_index, stored_index, bot_entry, entry_guard>>

\* the refresh interval elapses
WakeRefresher ==
    /\ bot_pc[Refresher] = "sleep"
    /\ bot_pc' = [bot_pc EXCEPT ![Refresher] = "fetch"]
    /\ UNCHANGED <<bot_threads, bot_running, bot_hung, anchor_lock, anchor_waiters,
                   cached_blockhash, latest_blockhash, fetched_blockhash,
                   pool_guard, bot_outcome, bot_delay, process_delay,
                   ledger_index, stored_index, bot_entry, entry_guard>>

\* environment: a remote call in progress never returns.  The number of
\* hung calls stays smaller than the number of tasks.
Hang(t) ==
    /\ t \notin bot_hung
    /\ bot_pc[t] = IF t = Refresher THEN "in_call" ELSE "build"
    /\ Cardinality(bot_hung) + 1 < Cardinality(Tasks)
    /\ bot_hung' = bot_hung \cup {t}
    /\ UNCHANGED <<bot_threads, bot_pc, bot_running, anchor_lock, anchor_waiters,
                   cached_blockhash, latest_blockhash, fetched_blockhash,
                   pool_guard, bot_outcome, bot_delay, process_delay,
                   ledger_index, stored_index, bot_entry, entry_guard>>

\* environment: the price index of the registered pools moves on the ledger
PriceChange ==
    /\ ledger_index < MaxIndex
    /\ ledger_index' = ledger_index + 1
    /\ UNCHANGED <<bot_threads, bot_pc, bot_running, bot_hung, anchor_lock, anchor_waiters,
                   cached_blockhash, latest_blockhash, fetched_blockhash,
                   pool_guard, bot_outcome, bot_delay, process_delay,
                   stored_index, bot_entry, entry_guard>>

WorkerStep(w) ==
    \/ LockAnchor(w)
    \/ CopyAnchor(w)
    \/ StartBuildAndSend(w)
    \/ BuildAndSendReturns(w)
    \/ LogAndSleep(w)
    \/ WakeWorker(w)

RefresherStep ==
    \/ FetchBlockhash
    \/ BlockhashReturns
    \/ LockAnchor(Refresher)
    \/ WriteAnchor
    \/ WakeRefresher

NextBotLive ==
    /\ \/ \E t \in Tasks : Schedule(t)
       \/ \E w \in Workers : WorkerStep(w)
       \/ RefresherStep
       \/ PriceChange
    /\ UNCHANGED <<initVars, decVars, refreshVars, run_bot>>

NextBot ==
    \/ NextBotLive
    \/ /\ \E t \in Tasks : Hang(t)
       /\ UNCHANGED <<initVars, decVars, refreshVars, run_bot>>

SpecBot == BotInit /\ [][NextBot]_vars

\* lock().await returns the guard: to a task that asks while the mutex is
\* free and nobody waits, or to the waiter the mutex was handed to
AcquireAnchor(t) == LockAnchor(t) /\ anchor_lock' = t

\* The runtime polls every runnable task, every call returns, every timer
\* fires and the mutex is fair; no call hangs.
BotFairness ==
    /\ \A t \in Tasks :
         /\ SF_vars(Schedule(t) /\ UNCHANGED <<initVars, decVars, refreshVars, run_bot>>)
         /\ SF_vars(AcquireAnchor(t) /\ UNCHANGED <<initVars, decVars, refreshVars, run_bot>>)
    /\ \A w \in Workers :
         WF_vars(WorkerStep(w) /\ UNCHANGED <<initVars, decVars, refreshVars, run_bot>>)
    /\ WF_vars(RefresherStep /\ UNCHANGED <<initVars, decVars, refreshVars, run_bot>>)

SpecBotFair == BotInit /\ [][NextBotLive]_vars /\ BotFairness

-----------------------------------------------------------------------------
(* Startup.  run_bot from the first anchor fetch to the spawn loop: the     *)
(* initializer runs inside it, then the token account of every mint of the  *)
(* registry is looked up and created if missing, then one task per entry    *)
(* is spawned.                                                              *)

\* run_bot's locals at `let initial_blockhash = ..get_latest_blockhash()?`
RunBotEntry ==
    [pc |-> "anchor",
     refresher |-> FALSE,     \* blockhash_refresher was spawned
     todo |-> {},             \* keys the bootstrap loop has still to visit
     mint |-> "none",         \* the key the bootstrap loop is at
     unspawned |-> {},        \* entries the spawn loop has still to visit
     spawned |-> {},          \* mints whose task was spawned
     built |-> {}]            \* mints whose task called build_and_send_transaction

StartupInit ==
    /\ InitFrom(ConfigList(0, MaxMarkets, 0 - 1), 1, 0)
    /\ run_bot = RunBotEntry

\* rpc_client.get_latest_blockhash()?, then tokio::spawn(blockhash_refresher)
FetchInitialAnchor ==
    /\ run_bot.pc = "anchor"
    /\ \/ run_bot' = [run_bot EXCEPT !.pc = "initialize", !.refresher = TRUE]
       \/ run_bot' = [run_bot EXCEPT !.pc = "err"]
    /\ UNCHANGED <<initVars, decVars, refreshVars, botVars>>

\* initialize_pools_from_markets(..).await runs
RunInitializer ==
    /\ run_bot.pc = "initialize"
    /\ NextInit

\* `.await?`: Ok(mint_pool_data_map) goes on to the bootstrap loop, Err is
\* returned, a panic of the initializer unwinds run_bot
InitializerReturns ==
    /\ run_bot.pc = "initialize"
    /\ init_pc \in {"ok", "err", "panic"}
    /\ run_bot' = CASE init_pc = "ok" ->
                       [run_bot EXCEPT !.pc = "bootstrap",
                                       !.todo = DOMAIN result]
                     [] init_pc = "err" -> [run_bot EXCEPT !.pc = "err"]
                     [] init_pc = "panic" -> [run_bot EXCEPT !.pc = "panic"]
    /\ UNCHANGED <<initVars, decVars, refreshVars, botVars>>

\* `for mint in mint_pool_data_map.keys()`: rpc_client.get_account(mint)?
BootstrapMint ==
    /\ run_bot.pc = "bootstrap"
    /\ \E mint \in run_bot.todo :
         \/ run_bot' = [run_bot EXCEPT !.pc = "check_ata", !.mint = mint]
         \/ run_bot' = [run_bot EXCEPT !.pc = "err"]
    /\ UNCHANGED <<initVars, decVars, refreshVars, botVars>>

\* `match rpc_client.get_account(&wallet_token_account)`: Ok breaks the
\* inner loop, Err goes on to create the account
CheckTokenAccount ==
    /\ run_bot.pc = "check_ata"
    /\ \/ run_bot' = [run_bot EXCEPT !.pc = "bootstrap",
                                      !.todo = @ \ {run_bot.mint},
                                      !.mint = "none"]
       \/ run_bot' = [run_bot EXCEPT !.pc = "create_ata"]
    /\ UNCHANGED <<initVars, decVars, refreshVars, botVars>>

\* get_latest_blockhash()? and send_and_confirm_transaction: either Err is
\* returned, Ok goes round the inner loop
CreateTokenAccount ==
    /\ run_bot.pc = "create_ata"
    /\ \/ run_bot' = [run_bot EXCEPT !.pc = "check_ata"]
       \/ run_bot' = [run_bot EXCEPT !.pc = "err"]
    /\ UNCHANGED <<initVars, decVars, refreshVars, botVars>>

\* the bootstrap loop is over; the lookup tables are loaded (no failure
\* ends run_bot there) and the spawn loop begins
BootstrapDone ==
    /\ run_bot.pc = "bootstrap"
    /\ run_bot.todo = {}
    /\ run_bot' = [run_bot EXCEPT !.pc = "spawn", !.unspawned = DOMAIN result]
    /\ UNCHANGED <<initVars, decVars, refreshVars, botVars>>

\* `for (mint, pool_data) in mint_pool_data_map { .. tokio::spawn(..) }`,
\* then the idle loop of run_bot
SpawnWorker ==
    /\ run_bot.pc = "spawn"
    /\ IF run_bot.unspawned = {}
       THEN run_bot' = [run_bot EXCEPT !.pc = "running"]
       ELSE \E mint \in run_bot.unspawned :
              run_bot' = [run_bot EXCEPT !.unspawned = @ \ {mint},
                                         !.spawned = @ \cup {mint}]
    /\ UNCHANGED <<initVars, decVars, refreshVars, botVars>>

\* a spawned task calls build_and_send_transaction on its entry
WorkerBuilds ==
    /\ \E mint \in run_bot.spawned \ run_bot.built :
         run_bot' = [run_bot EXCEPT !.built = @ \cup {mint}]
    /\ UNCHANGED <<initVars, decVars, refreshVars, botVars>>

NextStartup ==
    \/ FetchInitialAnchor
    \/ RunInitializer
    \/ InitializerReturns
    \/ BootstrapMint
    \/ CheckTokenAccount
    \/ CreateTokenAccount
    \/ BootstrapDone
    \/ SpawnWorker
    \/ WorkerBuilds

SpecStartup == StartupInit /\ [][NextStartup]_vars

-----------------------------------------------------------------------------
(* Properties of the orchestrator.                                          *)

\* what the rest of the system can see of task t
TaskState(t) ==
    IF t = Refresher
    THEN <<bot_pc[t], t \in bot_running, t \in bot_hung, fetched_blockhash>>
    ELSE <<bot_pc[t], t \in bot_running, t \in bot_hung, latest_blockhash[t],
           pool_guard[t], bot_outcome[t], bot_delay[t], stored_index[t]>>

\* a step in which build_and_send_transaction of worker w returns Err
BuildFails(w) ==
    /\ bot_pc[w] = "build"
    /\ bot_pc'[w] = "built"
    /\ bot_outcome'[w] = "Err"

C5_WorkerStep ==
    /\ process_delay' = process_delay
    /\ \A w \in Workers :
         /\ bot_pc'[w] \in WorkerLoop
         /\ bot_delay'[w] = process_delay
         /\ (bot_pc[w] = "build" /\ bot_pc'[w] # "build") => bot_pc'[w] = "built"
         /\ (bot_pc[w] = "built" /\ bot_pc'[w] # "built") => bot_pc'[w] = "sleep"
         /\ (bot_pc[w] = "sleep" /\ bot_pc'[w] # "sleep")
                => bot_pc'[w] = "lock_anchor"
         /\ BuildFails(w) =>
                /\ \A t \in Tasks \ {w} : TaskState(t)' = TaskState(t)
                /\ UNCHANGED <<anchor_lock, cached_blockhash>>

\* C5: every per-mint worker cycles BuildAndSend -> Sleep(process_delay) ->
\* BuildAndSend for ever: whatever the result of BuildAndSend the worker goes
\* to sleep for the configured delay (which never changes) and then starts the
\* next iteration, it never leaves the loop, and a failed BuildAndSend of one
\* worker changes nothing of any other task; when no call hangs every worker
\* is in BuildAndSend and asleep infinitely often.
C5_WorkerCyclesForever ==
    /\ [][C5_WorkerStep]_vars
    /\ \A w \in Workers :
         /\ []<>(bot_pc[w] = "build")
         /\ []<>(bot_pc[w] = "sleep")

\* a worker whose BuildAndSend failed sleeps the configured delay while the
\* other worker, past its own sleep, is in BuildAndSend
C5_Witness ==
    \E w, v \in Workers :
        /\ bot_outcome[w] = "Err"
        /\ bot_pc[w] = "sleep"
        /\ bot_delay[w] = process_delay
        /\ bot_pc[v] = "build"

\* C6: when fewer calls hang than there are tasks, the hung calls never hold
\* every scheduler thread, so that each of the other tasks can still be
\* polled and complete iterations, for any number of threads including one.
C6_HungCallsLeaveAThread ==
    Cardinality(bot_hung) < Cardinality(Tasks)
        => Cardinality(bot_running \cap bot_hung) < bot_threads

\* C7: whenever the price index of a registered pool is no longer the one
\* its stored bucket list was derived from, the orchestrator eventually has
\* the list recomputed from the new index.
C7_ChangedIndexIsRecomputed ==
    \A w \in Workers :
        (stored_index[w] # ledger_index) ~> (stored_index[w] = ledger_index)

\* C8: the anchor lock is never held across a network call or a sleep: its
\* holder is on a scheduler thread between acquiring the lock and copying or
\* writing the value, so a task that waits for the lock never waits for a
\* remote call or a timer of the holder.  A waiter the mutex was handed to
\* holds no guard yet; while it waits to be polled the scheduler threads are
\* not all taken by tasks inside a remote call.
C8_AnchorLockNotHeldAcrossCall ==
    /\ anchor_lock # NoHolder =>
         /\ anchor_lock \in bot_running
         /\ bot_pc[anchor_lock] = IF anchor_lock = Refresher THEN "write"
                                  ELSE "copy"
    /\ anchor_waiters # <<>> =>
         Cardinality({t \in bot_running : bot_pc[t] \in {"in_call", "build"}})
             < bot_threads
    /\ \A t \in Tasks :
         bot_pc[t] \in {"fetch", "in_call", "lock_pool", "build", "built",
                        "sleep"} => anchor_lock # t

\* the workers whose task owns the entry
OwnersOf(m) == {w \in Workers : bot_entry[w] = m}

\* C16: after startup the registry is never resized and its entries are never
\* shared: the key set stays the one of the startup map, every entry has
\* exactly one worker, a worker never changes its entry, and an entry's mutex
\* is only ever held by the entry's own worker.
C16_EntriesFixedAndUnshared ==
    /\ [](/\ DOMAIN entry_guard = RegistryKeys
          /\ bot_entry \in [Workers -> RegistryKeys]
          /\ \A m \in RegistryKeys : Cardinality(OwnersOf(m)) = 1
          /\ \A m \in RegistryKeys :
                entry_guard[m] # NoHolder => OwnersOf(m) = {entry_guard[m]}
          /\ \A w \in Workers :
                pool_guard[w] <=> entry_guard[bot_entry[w]] = w)
    /\ [][bot_entry' = bot_entry]_vars

\* every worker holds the mutex of its own entry at the same time, each
\* inside build_and_send_transaction
C16_Witness ==
    /\ \A w \in Workers : bot_pc[w] = "build"
    /\ \A w \in Workers : entry_guard[bot_entry[w]] = w

-----------------------------------------------------------------------------
(* Properties of the market initializer.                                    *)

\* the anchors a venue accepts
AnchorsOf(kind) ==
    IF kind = "Heaven" THEN {sol_mint, usdc_mint} ELSE {sol_mint}

\* the pool records of the registry, each with its entry's key and its venue
RegisteredRecords ==
    UNION {UNION {{<<m, k, result[m].pools[k][i]>> :
                     i \in 1..Len(result[m].pools[k])} : k \in Kinds} :
           m \in DOMAIN result}

\* C1: in the returned registry every pool record has exactly one side that
\* is an anchor of its venue (SOL; for Heaven SOL or USDC), and its other
\* side is the key of the entry that holds it, whatever the ledger answered
\* at discovery and at the re-fetch.
C1_OneAnchorSideOtherIsKey ==
    init_pc = "ok" =>
        \A r \in RegisteredRecords :
            LET mint == r[1]
                anchors == AnchorsOf(r[2])
                rec == r[3]
            IN \/ /\ rec.base_mint \in anchors
                  /\ rec.token_mint \notin anchors
                  /\ rec.token_mint = mint
               \/ /\ rec.token_mint \in anchors
                  /\ rec.base_mint \notin anchors
                  /\ rec.base_mint = mint

\* C2: in the returned registry exactly one of a record's token_mint and
\* base_mint equals the key of its entry, and no record has token_mint equal
\* to base_mint, also for a pool whose two mints are the same.
C2_ExactlyOneSideIsKey ==
    init_pc = "ok" =>
        \A r \in RegisteredRecords :
            /\ (r[3].token_mint = r[1]) # (r[3].base_mint = r[1])
            /\ r[3].token_mint # r[3].base_mint

\* C9: an absent, unknown-owner, undecodable or no-anchor market does not
\* make discovery fail, and after every chunk the grouping is the one the
\* discovery loop builds from the same slots with those markets removed,
\* each of them having produced one log line.
C9_SkipsLeaveGroupingOfTheRest ==
    /\ init_err # "extract_token_mint"
    /\ mint_pools = ref_pools
    /\ (init_pc = "register" =>
           log["not_found"] + log["unknown_program"] + log["no_sol"]
             + log["parse_failed"]
           = Len(market_pubkeys) - Cardinality(UNION {BuilderAddrs(mint_pools[m]) :
                                                        m \in DOMAIN mint_pools}))

\* C10: a batch fetch that fails does not make the initializer return an
\* error: the chunk is skipped and the registry is returned.
C10_FailedChunkIsSkipped ==
    init_pc = "err" => init_err # "get_multiple_accounts"

\* the re-fetched account of a grouped pool is not one the venue's branch
\* may register: another owner, undecodable data, or no accepted anchor mint
RefetchFault(kind, resp) ==
    /\ resp.fetched
    /\ \/ resp.owner # ProgramOf(kind)
       \/ ~resp.data.ok
       \/ {resp.data.a, resp.data.b}
             \cap (IF kind = "Heaven" THEN {sol_mint, usdc_mint} ELSE {sol_mint})
           = {}

\* C11: when the re-fetched account of a grouped pool has another owner than
\* the venue's program, does not decode, or holds no accepted anchor mint,
\* initialize_pool_data returns an error and the initializer aborts: the pool
\* is neither skipped nor registered.
C11_RefetchFaultAborts ==
    (subj_refetch # <<>> /\ RefetchFault(subj_refetch.kind, subj_refetch.resp))
        => (init_pc = "err" /\ init_err = "initialize_pool_data")

\* C12: a mint whose account fetch failed or whose owner is neither token
\* program makes the initializer return an error, so no registry is returned
\* whatever entries were built before; every entry built has as token_program
\* the owner of its key mint's account.
C12_MintResolutionAllOrNothing ==
    /\ (\E m \in DOMAIN mint_fetch :
           mint_fetch[m] \notin {spl_token_id, token_2022_program_id})
         => (init_pc = "err" /\ init_err = "initialize_pool_data")
    /\ \A m \in DOMAIN result :
         /\ m \in DOMAIN mint_fetch
         /\ mint_fetch[m] \in {spl_token_id, token_2022_program_id}
         /\ result[m].token_program = mint_fetch[m]
         /\ result[m].mint = m
    /\ init_pc = "ok" => DOMAIN result = DOMAIN mint_pools

\* the entry of one mint was built, then the account of a second mint turned
\* out to be owned by another program and the initializer returned the error
C12_Witness ==
    /\ init_pc = "err"
    /\ DOMAIN result # {}
    /\ \E m \in DOMAIN mint_fetch : mint_fetch[m] = system_program_id

\* the account is a decodable pool of a supported venue and neither of its
\* mints is an anchor the venue accepts
NonAnchorPool(account) ==
    /\ account.some
    /\ detect_pool_kind(account.owner) # NoKind
    /\ account.data.ok
    /\ account.data.prefix
    /\ {account.data.a, account.data.b}
          \cap AnchorsOf(detect_pool_kind(account.owner)) = {}

\* the records of the registry that were built for the pool address
RecordsOf(addr) == {r \in RegisteredRecords : r[3].pool = addr}

\* C13: a market whose pool account, as discovery read it, has two non-anchor
\* mints (neither is SOL; for Heaven neither is SOL nor USDC) is grouped under
\* no mint and has no record in any venue vector of any registry entry.
C13_NonAnchorPoolNeverRegistered ==
    \A addr \in DOMAIN disc_seen :
        NonAnchorPool(disc_seen[addr]) =>
            /\ \A m \in DOMAIN mint_pools :
                  addr \notin BuilderAddrs(mint_pools[m])
            /\ RecordsOf(addr) = {}

\* discovery read a pool without an anchor next to a pool with one, logged
\* the skip, and the registry was returned with the other pool only
C13_Witness ==
    /\ init_pc = "ok"
    /\ subject \in DOMAIN disc_seen
    /\ NonAnchorPool(disc_seen[subject])
    /\ log["no_sol"] = 1
    /\ RegisteredRecords # {}

\* C14: whenever extract_token_mint returns a mint for a market's account,
\* the mint is one of the pool's two mints and is not an anchor the venue
\* accepts; hence no key of the grouping or of the registry is an anchor of a
\* venue that has a pool under it.
C14_ExtractedMintIsNotAnAnchor ==
    /\ \A addr \in DOMAIN disc_seen :
          LET account == disc_seen[addr]
              kind == detect_pool_kind(account.owner)
          IN (account.some /\ kind # NoKind) =>
                LET token_mint == extract_token_mint(kind, account.data)
                IN token_mint.tag = "Some" =>
                      /\ token_mint.mint \in {account.data.a, account.data.b}
                      /\ token_mint.mint \notin AnchorsOf(kind)
    /\ \A m \in DOMAIN mint_pools : \A k \in Kinds :
          mint_pools[m][k] # <<>> => m \notin AnchorsOf(k)
    /\ \A r \in RegisteredRecords : r[1] \notin AnchorsOf(r[2])

\* the account is a valid pool of a supported venue with exactly one side
\* that is an anchor the venue accepts, and the venue's auxiliary step works
OneAnchorPool(account) ==
    /\ account.some
    /\ detect_pool_kind(account.owner) # NoKind
    /\ account.data.ok /\ account.data.prefix /\ account.data.aux
    /\ (account.data.a \in AnchorsOf(detect_pool_kind(account.owner)))
         # (account.data.b \in AnchorsOf(detect_pool_kind(account.owner)))

\* the case of C15: discovery read the ScenarioMarkets markets, the subject
\* as a valid one-anchor pool of a venue other than Raydium V4, one of the
\* others as the Raydium V4 pool and the rest as accounts of the system
\* program; the re-fetch returned the subject's account unchanged
ThreeMarketCase ==
    /\ DOMAIN disc_seen = 1..ScenarioMarkets
    /\ OneAnchorPool(disc_seen[subject])
    /\ disc_seen[subject].owner # raydium_program_id
    /\ \E p \in (1..ScenarioMarkets) \ {subject} :
         /\ disc_seen[p].owner = raydium_program_id
         /\ \A u \in (1..ScenarioMarkets) \ {subject, p} :
               disc_seen[u].owner = system_program_id
    /\ subj_refetch # <<>>
    /\ subj_refetch.resp
         = Fetched(disc_seen[subject].owner, disc_seen[subject].data)

\* C15: of the ScenarioMarkets (three) markets two are valid one-anchor pools
\* of two different supported venues and every other one is owned by an
\* unsupported program: the returned registry holds exactly two pool records,
\* each in its own venue's vector under its own traded mint, none for an
\* unsupported market, and the discovery logged one unknown-owner skip for
\* each unsupported market (exactly one) and no other skip.
C15_TwoVenuesOneUnknown ==
    (init_pc = "ok" /\ ThreeMarketCase) =>
        LET account == disc_seen[subject]
            kind == detect_pool_kind(account.owner)
            token_mint == IF account.data.a \in AnchorsOf(kind)
                          THEN account.data.b ELSE account.data.a
            p == CHOOSE a \in DOMAIN disc_seen :
                    disc_seen[a].owner = raydium_program_id
        IN /\ Cardinality(RegisteredRecords) = 2
           /\ \E r \in RegisteredRecords :
                 r[1] = token_mint /\ r[2] = kind /\ r[3].pool = subject
           /\ \E r \in RegisteredRecords :
                 r[1] = "T1" /\ r[2] = "RaydiumV4" /\ r[3].pool = p
           /\ \A u \in DOMAIN disc_seen :
                 disc_seen[u].owner = system_program_id => RecordsOf(u) = {}
           /\ DOMAIN result = {token_mint, "T1"}
           /\ log = [EmptyLog EXCEPT
                       !["unknown_program"] = ScenarioMarkets - 2]

\* the registry was returned for a Whirlpool pool of another mint, the
\* Raydium V4 pool and the unsupported market
C15_Witness ==
    /\ init_pc = "ok"
    /\ ThreeMarketCase
    /\ disc_seen[subject].owner = whirlpool_program_id
    /\ "T2" \in DOMAIN result

\* the venues under which the address is grouped
GroupedKinds(addr) ==
    {k \in Kinds : \E m \in DOMAIN mint_pools : addr \in Range(mint_pools[m][k])}

\* C21: detect_pool_kind is a lookup in the table of venue programs: for the
\* owner of every account discovery read it returns the venue whose program
\* the owner is and None when there is none; the programs of the table are
\* pairwise distinct, so an owner has at most one venue, and an address is
\* only ever grouped under the venue of its owner.
C21_DetectIsATableLookup ==
    /\ \A k1, k2 \in Kinds : ProgramOf(k1) = ProgramOf(k2) => k1 = k2
    /\ \A addr \in DOMAIN disc_seen :
          disc_seen[addr].some =>
            LET owner == disc_seen[addr].owner
                kind == detect_pool_kind(owner)
            IN /\ (kind # NoKind) <=> (\E k \in Kinds : ProgramOf(k) = owner)
               /\ kind # NoKind => (kind \in Kinds /\ ProgramOf(kind) = owner)
               /\ GroupedKinds(addr) \subseteq {kind}

\* discovery read an account of the Heaven program, the last of the table,
\* and grouped it under Heaven
C21_Witness ==
    /\ subject \in DOMAIN disc_seen
    /\ disc_seen[subject].owner = heaven_program_id
    /\ GroupedKinds(subject) = {"Heaven"}

\* the mints under which the address is grouped
GroupedMints(addr) ==
    {m \in DOMAIN mint_pools : addr \in BuilderAddrs(mint_pools[m])}

\* C23: every get_multiple_accounts request of the initializer holds between
\* 1 and ChunkSize addresses, the requests are the consecutive blocks of the
\* parsed list, the i-th returned slot is attributed to the i-th address of
\* its chunk, and no index is out of range however many slots come back.
C23_ChunksBoundedAndAttributed ==
    /\ init_err # "chunk[i]"
    /\ init_pc = "discover" =>
          /\ (chunk_ix - 1) % ChunkSize = 0
          /\ Len(ChunkAt(market_pubkeys, chunk_ix)) \in 1..ChunkSize
    /\ (init_pc \in {"register", "ok"} /\ market_pubkeys # <<>>) =>
          chunk_ix = Len(market_pubkeys) + 1
    /\ \A addr \in DOMAIN disc_seen :
          /\ addr \in Range(market_pubkeys)
          /\ \A m \in GroupedMints(addr) :
                LET account == disc_seen[addr]
                IN /\ account.some
                   /\ extract_token_mint(detect_pool_kind(account.owner),
                                         account.data)
                        = ExtractSome(m)

\* the positions of the configured strings that are well-formed addresses
WellFormed == {i \in DOMAIN cfg_markets : cfg_markets[i].valid}

\* C22: ill-formed market strings are dropped and do not fail the
\* initializer; the well-formed addresses are kept in their configured order
\* and stay so through discovery; with no well-formed string the initializer
\* returns Ok with an empty registry without any fetch from the ledger.
C22_IllFormedStringsAreDropped ==
    /\ [](/\ (init_pc = "discover" /\ chunk_ix = 1) =>
                /\ Len(market_pubkeys) = Cardinality(WellFormed)
                /\ \A i \in WellFormed :
                      market_pubkeys[Cardinality({j \in WellFormed : j <= i})]
                        = cfg_markets[i].addr
          /\ (init_pc # "parse" /\ WellFormed = {}) =>
                /\ init_pc = "ok"
                /\ market_pubkeys = <<>>
                /\ result = <<>>
                /\ disc_seen = <<>> /\ mint_fetch = <<>> /\ log = EmptyLog
          /\ (init_pc # "parse" /\ WellFormed # {}) => market_pubkeys # <<>>)
    /\ [][init_pc # "parse" => market_pubkeys' = market_pubkeys]_vars

\* a list with an ill-formed string before its well-formed ones was parsed,
\* the markets were fetched and the registry was returned with a pool
C22_Witness ==
    /\ init_pc = "ok"
    /\ Len(cfg_markets) > 1
    /\ ~cfg_markets[Len(cfg_markets) - 1].valid
    /\ Len(market_pubkeys) = Len(cfg_markets) - 1
    /\ RegisteredRecords # {}

\* the tick-indexed pools of the refreshed entry whose refresh succeeded in
\* the call just made: <<venue, address, bucket list>>
RefreshedTickPools ==
    {p \in BucketPools(rf_entry) :
        /\ p[1] >= 3
        /\ p[2] \in DOMAIN rf_rpc
        /\ ~RefreshFailed(p[1], rf_rpc[p[2]])}

\* C24: for every price index (0 and negative ones included) and positive
\* spacing the bucket indices derived for the offsets -1, 0, +1 are three
\* distinct, strictly increasing values, the middle bucket holds the price
\* index under floor division, and the list stored for a tick-indexed pool
\* is those three addresses in that order.
C24_BucketsAroundThePriceIndex ==
    /\ \A p \in BucketPools(rf_entry) :
          p[1] >= 3 =>
            /\ Len(p[3]) = 3
            /\ p[3][1].bucket < p[3][2].bucket
            /\ p[3][2].bucket < p[3][3].bucket
            /\ \A k \in 1..3 : /\ p[3][k].bucket_of = p[2]
                                /\ p[3][k].program = BucketProgram(p[1])
    /\ \A p \in RefreshedTickPools :
          LET state == rf_rpc[p[2]].state
              span == 60 * state.tick_spacing
          IN /\ state.tick_spacing > 0
             /\ p[3][2].bucket * span <= state.index
             /\ state.index < (p[3][2].bucket + 1) * span
             /\ p[3][1].bucket = p[3][2].bucket - 1
             /\ p[3][3].bucket = p[3][2].bucket + 1

\* a Raydium CLMM pool registered at price index 0 was refreshed at the
\* negative price index -5
C24_Witness ==
    \E p \in RefreshedTickPools :
        /\ p[1] = 3
        /\ rf_rpc[p[2]].state.index = 0 - 5
        /\ p[3][2].bucket = 0 - 1
        /\ \E q \in BucketPools(rf_before) :
              q[2] = p[2] /\ q[3][2].bucket = 0

\* an entry with the bucket list of every bucket-bearing pool blanked
WithoutBuckets(data) ==
    [data EXCEPT
       !.dlmm_pairs = [j \in 1..Len(@) |-> [@[j] EXCEPT !.bin_arrays = <<>>]],
       !.whirlpool_pools =
           [j \in 1..Len(@) |-> [@[j] EXCEPT !.tick_arrays = <<>>]],
       !.raydium_clmm_pools =
           [j \in 1..Len(@) |-> [@[j] EXCEPT !.tick_arrays = <<>>]]]

\* C25: a call of refresh_all_pools changes nothing of the entry but the
\* bucket lists (bin_arrays, tick_arrays): the number and order of the pool
\* records of every venue, every pool address, vault and mint, the key mint,
\* the token program, the wallet accounts and the vectors of the venues
\* without buckets are after the call what they were before it.
C25_RefreshChangesOnlyBuckets ==
    /\ WithoutBuckets(rf_entry) = WithoutBuckets(rf_before)
    /\ DOMAIN rf_entry = DOMAIN rf_before
    /\ rf_entry.raydium_pools = rf_before.raydium_pools
    /\ rf_entry.mint = rf_before.mint
    /\ rf_entry.wallet_account = rf_before.wallet_account
    /\ rf_entry.wallet_wsol_account = rf_before.wallet_wsol_account

\* a call refreshed the buckets of one pool of an entry with two
\* bucket-bearing pools and failed to fetch the other
C25_Witness ==
    /\ rf_ret = "Ok"
    /\ rf_entry # rf_before
    /\ Cardinality(BucketPools(rf_entry)) >= 2
    /\ \E p \in BucketPools(rf_entry) :
          p[2] \in DOMAIN rf_rpc /\ ~rf_rpc[p[2]].fetched

\* the span of price indices of one bucket of a pool of venue v
BucketSpan(v, state) ==
    CASE v = 1 -> 70
      [] v = 2 -> 88 * state.tick_spacing
      [] OTHER -> 60 * state.tick_spacing

\* C27: refresh_all_pools returns Ok whatever the ledger answers; a pool
\* whose refresh fails does not keep any other pool from being refreshed;
\* every bucket-bearing pool of the entry is asked for exactly once, the
\* venues in their fixed order and each venue's pools in vector order.
C27_RefreshNeverFails ==
    rf_ret # "none" =>
        /\ rf_ret = "Ok"
        /\ Len(rf_calls) = Cardinality(BucketPools(rf_entry))
        /\ \A i \in 1..Len(rf_calls) :
              /\ rf_calls[i] \in {p[2] : p \in BucketPools(rf_entry)}
              /\ \A j \in 1..(i - 1) : rf_calls[j] < rf_calls[i]
        /\ \A p \in BucketPools(rf_entry) :
              LET response == rf_rpc[p[2]]
              IN (/\ response.fetched
                  /\ response.state.ok
                  /\ response.state.derive_ok
                  /\ response.owner = BucketProgram(p[1])) =>
                     p[3] = DeriveBuckets(p[2], response.state.index,
                                          BucketSpan(p[1], response.state),
                                          BucketProgram(p[1]))

\* a call returned Ok although the fetch of one pool failed, and another
\* pool of the entry was refreshed to a new price index in the same call
C27_Witness ==
    /\ rf_ret = "Ok"
    /\ \E p, q \in BucketPools(rf_entry) :
          /\ ~rf_rpc[p[2]].fetched
          /\ rf_rpc[q[2]].fetched
          /\ p[2] < q[2]
          /\ q \notin BucketPools(rf_before)

\* C26 as stated: in every state the shared anchor is the value fetched at
\* startup or the value the refresher's most recent successful fetch
\* returned.
C26_AnchorIsStartupOrLatestFetch ==
    cached_blockhash \in {initial_blockhash, fetched_blockhash}

\* the refresher is between a successful fetch and the store of its value
StorePending == bot_pc[Refresher] \in {"lock_anchor", "wait_anchor", "write"}

\* C26, amended: the shared anchor is the value of the refresher's most
\* recent successful fetch (the startup value before the first one) except
\* while the refresher waits for the anchor lock to store a value it has
\* fetched; only the refresher's store changes it, to the value fetched; a
\* failed fetch changes nothing and is followed by the sleep and the next
\* fetch, the refresher never leaving its loop; a worker's copy changes only
\* at the start of its iteration, to the anchor as it is then.
C26_AnchorFollowsRefresher ==
    /\ [](/\ ~StorePending => cached_blockhash = fetched_blockhash
          /\ bot_pc[Refresher] \in RefresherLoop)
    /\ [][/\ cached_blockhash' # cached_blockhash =>
               /\ bot_pc[Refresher] = "write"
               /\ anchor_lock = Refresher
               /\ cached_blockhash' = fetched_blockhash
          /\ (bot_pc[Refresher] = "in_call" /\ bot_pc'[Refresher] = "sleep") =>
               /\ cached_blockhash' = cached_blockhash
               /\ fetched_blockhash' = fetched_blockhash
          /\ (bot_pc[Refresher] = "sleep" /\ bot_pc'[Refresher] # "sleep") =>
               bot_pc'[Refresher] = "fetch"
          /\ \A w \in Workers :
               latest_blockhash'[w] # latest_blockhash[w] =>
                   /\ bot_pc[w] = "copy"
                   /\ anchor_lock = w
                   /\ latest_blockhash'[w] = cached_blockhash
                   /\ cached_blockhash' = cached_blockhash]_vars

\* the refresher has overwritten the anchor while a worker is in
\* build_and_send_transaction with the value it copied before
C26_Witness ==
    /\ cached_blockhash = "h1"
    /\ ~StorePending
    /\ \E w \in Workers :
          bot_pc[w] = "build" /\ latest_blockhash[w] = initial_blockhash

\* C28: no per-mint task is spawned, and none builds, before the
\* initializer has returned Ok and the bootstrap has visited every mint of
\* the registry; once the first anchor fetch, the initializer or the
\* bootstrap has failed, run_bot has returned an error and no task is ever
\* spawned.
C28_NoWorkerBeforeStartupCompletes ==
    /\ run_bot.spawned # {} =>
          /\ init_pc = "ok"
          /\ run_bot.todo = {}
          /\ run_bot.pc \in {"spawn", "running"}
          /\ run_bot.spawned \subseteq DOMAIN result
    /\ run_bot.built \subseteq run_bot.spawned
    /\ run_bot.pc = "running" => run_bot.spawned = DOMAIN result
    /\ run_bot.pc \in {"err", "panic"} => run_bot.spawned = {}
    /\ (init_pc \in {"err", "panic"} /\ run_bot.pc # "initialize") =>
          run_bot.pc = "err"

\* C29: in every pool record of the returned registry the vault stored on
\* the token side holds the record's token_mint and the vault stored on the
\* anchor side holds the record's base_mint, whichever of the venue's two
\* tokens the anchor is.
C29_VaultsFollowMints ==
    init_pc = "ok" =>
        \A r \in RegisteredRecords :
            /\ r[3].token_vault.mint = r[3].token_mint
            /\ r[3].sol_vault.mint = r[3].base_mint

\* the programs whose pools the refresher or a decoder knows and the
\* initializer does not
UnsupportedPrograms == {pancakeswap_program_id, byreal_program_id,
                        futarchy_program_id, humidifi_program_id}

\* C30: an account owned by the PancakeSwap, Byreal, Futarchy or HumidiFi
\* program is of no kind for detect_pool_kind, is grouped under no mint and
\* venue, and is never registered; every record of a returned registry
\* belongs to one of the ten venues of the initializer, whose entries have
\* no vector for PancakeSwap or Byreal pools.
C30_UnsupportedVenuesAreNeverRegistered ==
    /\ \A owner \in UnsupportedPrograms : detect_pool_kind(owner) = NoKind
    /\ UnsupportedPrograms \cap {ProgramOf(k) : k \in Kinds} = {}
    /\ \A addr \in DOMAIN disc_seen :
          (disc_seen[addr].some
             /\ disc_seen[addr].owner \in UnsupportedPrograms) =>
            /\ GroupedKinds(addr) = {}
            /\ \A r \in RegisteredRecords : r[3].pool # addr
    /\ \A m \in DOMAIN result : DOMAIN result[m].pools = Kinds
    /\ \A r \in RegisteredRecords :
          /\ r[2] \in Kinds
          /\ (r[3].pool = subject /\ subj_refetch # <<>>) =>
                subj_refetch.resp.owner \notin UnsupportedPrograms

\* a well-formed SOL pool owned by the PancakeSwap program was read, logged
\* as of an unknown program, and the initializer returned an empty registry
C30_Witness ==
    /\ init_pc = "ok"
    /\ subject \in DOMAIN disc_seen
    /\ disc_seen[subject].some
    /\ disc_seen[subject].owner = pancakeswap_program_id
    /\ disc_seen[subject].data.ok
    /\ disc_seen[subject].data.b = sol_mint
    /\ log["unknown_program"] = 1
    /\ result = <<>>

====
